---- MODULE Spec2Model ----
(***************************************************************************)
(* RSCP core library (pawansahai/rscp-sdk): identifier codec, check digits *)
(* and the privacy gate, modelled as calls made by one caller.            *)
(*                                                                         *)
(* A JavaScript string is a sequence of one-character strings; characters  *)
(* outside ASCII are written by their code point ("U+00DF").  A call is a   *)
(* step from pc = "idle" to pc = "returned"; follow-up calls that feed a    *)
(* result back into the library start from pc = "returned".                *)
(***************************************************************************)
EXTENDS Integers, Sequences, FiniteSets, TLC

VARIABLES pc, op, arg, res, src, tzOffsetMin, lenientDates

vars == <<pc, op, arg, res, src, tzOffsetMin, lenientDates>>

(***************************************************************************)
(* Strings                                                                 *)
(***************************************************************************)
Digits == <<"0", "1", "2", "3", "4", "5", "6", "7", "8", "9">>

UpperLetters == <<"A", "B", "C", "D", "E", "F", "G", "H", "I", "J", "K", "L", "M", "N", "O", "P", "Q", "R", "S", "T", "U", "V", "W", "X", "Y", "Z">>

LowerLetters == <<"a", "b", "c", "d", "e", "f", "g", "h", "i", "j", "k", "l", "m", "n", "o", "p", "q", "r", "s", "t", "u", "v", "w", "x", "y", "z">>

\* String.prototype.indexOf for a single character: 0-based, -1 when absent.
IndexOf(s, c) ==
  IF \E i \in 1..Len(s) : s[i] = c
  THEN (CHOOSE i \in 1..Len(s) : s[i] = c /\ \A j \in 1..(i - 1) : s[j] # c) - 1
  ELSE -1

\* The ASCII letters' case mapping, as tables.
UpperOfLetter ==
  [c \in {LowerLetters[i] : i \in 1..Len(LowerLetters)} |->
     UpperLetters[IndexOf(LowerLetters, c) + 1]]

LowerOfLetter ==
  [c \in {UpperLetters[i] : i \in 1..Len(UpperLetters)} |->
     LowerLetters[IndexOf(UpperLetters, c) + 1]]

\* toUpperCase of one character; U+00DF (sharp s) becomes two characters,
\* U+0131 (dotless i) and U+017F (long s) become ASCII letters.
UpperOfChar(c) ==
  IF c \in DOMAIN UpperOfLetter THEN <<UpperOfLetter[c]>>
  ELSE IF c = "U+00DF" THEN <<"S", "S">>
  ELSE IF c = "U+0131" THEN <<"I">>
  ELSE IF c = "U+017F" THEN <<"S">>
  ELSE <<c>>

\* toLowerCase of one character; U+212A (Kelvin sign) becomes k.
LowerOfChar(c) ==
  IF c \in DOMAIN LowerOfLetter THEN <<LowerOfLetter[c]>>
  ELSE IF c = "U+212A" THEN <<"k">>
  ELSE <<c>>

RECURSIVE ToUpperCase(_)
ToUpperCase(s) ==
  IF s = <<>> THEN <<>> ELSE UpperOfChar(Head(s)) \o ToUpperCase(Tail(s))

RECURSIVE ToLowerCase(_)
ToLowerCase(s) ==
  IF s = <<>> THEN <<>> ELSE LowerOfChar(Head(s)) \o ToLowerCase(Tail(s))

IsDigit(c) == c \in {Digits[i] : i \in 1..Len(Digits)}

IsUpperLetter(c) == c \in DOMAIN LowerOfLetter

\* Number.prototype.toString for a non-negative integer.
RECURSIVE NumToString(_)
NumToString(n) ==
  IF n < 10 THEN <<Digits[n + 1]>>
  ELSE NumToString(n \div 10) \o <<Digits[(n % 10) + 1]>>

\* parseInt(s) without the radix on an engine that reads a leading 0 as octal.
RECURSIVE ParseOctal(_)
ParseOctal(s) ==
  IF s = <<>> THEN 0
  ELSE 8 * ParseOctal(SubSeq(s, 1, Len(s) - 1)) + IndexOf(Digits, s[Len(s)])

RECURSIVE ParseDecimal(_)
ParseDecimal(s) ==
  IF s = <<>> THEN 0
  ELSE 10 * ParseDecimal(SubSeq(s, 1, Len(s) - 1)) + IndexOf(Digits, s[Len(s)])

ParseInt_NoRadix(s) ==
  IF Len(s) > 1 /\ s[1] = "0" THEN ParseOctal(s) ELSE ParseDecimal(s)

\* parseInt(s, 10) for a string of decimal digits.
RECURSIVE ParseInt(_)
ParseInt(s) ==
  IF s = <<>> THEN 0
  ELSE 10 * ParseInt(SubSeq(s, 1, Len(s) - 1)) + IndexOf(Digits, s[Len(s)])

\* String.prototype.padStart(n, c).
RECURSIVE PadStart(_, _, _)
PadStart(s, n, c) == IF Len(s) >= n THEN s ELSE PadStart(<<c>> \o s, n, c)

(***************************************************************************)
(* JavaScript values: a string, a number, undefined, null, or an object    *)
(* (a sequence of key/value entries in insertion order).                   *)
(***************************************************************************)
Undefined == [t |-> "undefined", s |-> <<>>, n |-> 0, o |-> <<>>]

Null == [t |-> "null", s |-> <<>>, n |-> 0, o |-> <<>>]

Str(s) == [t |-> "string", s |-> s, n |-> 0, o |-> <<>>]

Num(n) == [t |-> "number", s |-> <<>>, n |-> n, o |-> <<>>]

\* A number with a fractional part: n is its integer part.
Frac(n) == [t |-> "fraction", s |-> <<>>, n |-> n, o |-> <<>>]

Obj(entries) == [t |-> "object", s |-> <<>>, n |-> 0, o |-> entries]

Entry(k, v) == [k |-> k, v |-> v]

\* Object.keys(data)
ObjectKeys(data) == [i \in 1..Len(data) |-> data[i].k]

\* data[key]
Get(data, key) ==
  IF \E i \in 1..Len(data) : data[i].k = key
  THEN data[CHOOSE i \in 1..Len(data) : data[i].k = key].v
  ELSE Undefined

\* An exception thrown out of a library call.
Throw(kind, field) == [kind |-> kind, field |-> field, value |-> <<>>, listed |-> <<>>]

\* A value returned by a library call.
Returned(v) == [kind |-> "ok", field |-> <<>>, value |-> v, listed |-> <<>>]

\* No call made yet.
NoInput == <<>>

NoResult == [kind |-> "none", field |-> <<>>, value |-> <<>>, listed |-> <<>>]

(***************************************************************************)
(* ISO 7064 MOD 11,10 check character (check-digits/index.ts)              *)
(***************************************************************************)
ISO7064_ALPHABET == Digits \o UpperLetters

RECURSIVE ISO7064Remainder(_, _)
ISO7064Remainder(s, remainder) ==
  IF s = <<>> THEN remainder
  ELSE LET value == IndexOf(ISO7064_ALPHABET, Head(s))
           m == (remainder + value) % 10
       IN ISO7064Remainder(Tail(s), ((IF m = 0 THEN 10 ELSE m) * 2) % 11)

\* The check character, or "Error" when a character is outside the alphabet.
calculateISO7064Check(input) ==
  LET upperInput == ToUpperCase(input)
  IN IF \E i \in 1..Len(upperInput) : IndexOf(ISO7064_ALPHABET, upperInput[i]) = -1
     THEN "Error"
     ELSE LET checkValue == (11 - ISO7064Remainder(upperInput, 10)) % 10
          IN IF checkValue = 10 THEN "X" ELSE Digits[checkValue + 1]

verifyISO7064(input, checkDigit) ==
  LET calculated == calculateISO7064Check(input)
  IN IF calculated = "Error" THEN FALSE
     ELSE <<calculated>> = ToUpperCase(checkDigit)

(***************************************************************************)
(* Certificate numbers (identifiers/index.ts)                              *)
(***************************************************************************)
MinYear == 2020

MaxYear == 2100

MinSerial == 1

MaxSerial == 999999

SerialWidth == 6

\* LEVEL_CODES[level]: an own key gives its code, a name inherited from
\* Object.prototype gives a function, anything else undefined.
ObjectPrototypeNames == {<<"c", "o", "n", "s", "t", "r", "u", "c", "t", "o", "r">>, <<"t", "o", "S", "t", "r", "i", "n", "g">>, <<"v", "a", "l", "u", "e", "O", "f">>}

LEVEL_CODES(level) ==
  IF level = <<"b", "r", "o", "n", "z", "e">> THEN Str(<<"B">>)
  ELSE IF level = <<"s", "i", "l", "v", "e", "r">> THEN Str(<<"S">>)
  ELSE IF level = <<"g", "o", "l", "d">> THEN Str(<<"G">>)
  ELSE IF level \in ObjectPrototypeNames THEN [Undefined EXCEPT !.t = "function"]
  ELSE Undefined

\* CODE_TO_LEVEL[levelCode] for a single-character code.
CODE_TO_LEVEL(levelCode) ==
  IF levelCode = <<"B">> THEN Str(<<"b", "r", "o", "n", "z", "e">>)
  ELSE IF levelCode = <<"S">> THEN Str(<<"s", "i", "l", "v", "e", "r">>)
  ELSE IF levelCode = <<"G">> THEN Str(<<"g", "o", "l", "d">>)
  ELSE Undefined

\* The text of a function value in a template literal.
FunctionText == <<"f", "u", "n", "c", "t", "i", "o", "n", " ", "O", "b", "j", "e", "c", "t", "(", ")", " ", "{", " ", "[", "n", "a", "t", "i", "v", "e", " ", "c", "o", "d", "e", "]", " ", "}">>

IsInteger(v) == v.t = "number"

AllUpperLetters(s, n) == Len(s) = n /\ \A i \in 1..n : IsUpperLetter(s[i])

AllDigits(s) == \A i \in 1..Len(s) : IsDigit(s[i])

Hyphen == <<"-">>

\* options: [year, level, country, issuerCode, serial]; year and serial are
\* numbers, the others strings.  Returns [kind |-> "ok", value |-> string] or
\* a thrown Error naming the offending field.
generateCertificateNumber(options) ==
  LET year == options.year
      serial == options.serial
      levelCode == LEVEL_CODES(options.level)
      upperCountry == ToUpperCase(options.country)
      upperIssuer == ToUpperCase(options.issuerCode)
  IN IF ~IsInteger(year) \/ year.n < MinYear \/ year.n > MaxYear
       THEN Throw("Error", <<"y", "e", "a", "r">>)
     ELSE IF levelCode.t = "undefined" THEN Throw("Error", <<"l", "e", "v", "e", "l">>)
     ELSE IF ~AllUpperLetters(upperCountry, 2) THEN Throw("Error", <<"c", "o", "u", "n", "t", "r", "y">>)
     ELSE IF ~AllUpperLetters(upperIssuer, 3) THEN Throw("Error", <<"i", "s", "s", "u", "e", "r", " ", "c", "o", "d", "e">>)
     ELSE IF ~IsInteger(serial) \/ serial.n < MinSerial \/ serial.n > MaxSerial
       THEN Throw("Error", <<"s", "e", "r", "i", "a", "l">>)
     ELSE LET paddedSerial == PadStart(NumToString(serial.n), SerialWidth, "0")
              code == IF levelCode.t = "function" THEN FunctionText ELSE levelCode.s
              base == <<"R", "S">> \o NumToString(year.n) \o code \o upperCountry
                        \o upperIssuer \o paddedSerial
              checkDigit == calculateISO7064Check(base)
          IN IF checkDigit = "Error" THEN Throw("Error", <<"c", "h", "a", "r", "a", "c", "t", "e", "r">>)
             ELSE [kind |-> "ok", field |-> <<>>, listed |-> <<>>,
                   value |-> <<"R", "S", "-">> \o NumToString(year.n) \o Hyphen \o code \o Hyphen
                               \o upperCountry \o Hyphen \o upperIssuer \o Hyphen
                               \o paddedSerial \o Hyphen \o <<checkDigit>>]

\* /^RS-(\d{4})-([BSG])-([A-Z]{2})-([A-Z]{3})-(\d{6})-([A-Z0-9])$/i on an
\* upper-cased string: only ASCII letters and digits match the classes.
CertificatePatternMatches(u) ==
  /\ Len(u) = 25
  /\ SubSeq(u, 1, 3) = <<"R", "S", "-">>
  /\ AllDigits(SubSeq(u, 4, 7))
  /\ u[8] = "-"
  /\ u[9] \in {"B", "S", "G"}
  /\ u[10] = "-"
  /\ AllUpperLetters(SubSeq(u, 11, 12), 2)
  /\ u[13] = "-"
  /\ AllUpperLetters(SubSeq(u, 14, 16), 3)
  /\ u[17] = "-"
  /\ AllDigits(SubSeq(u, 18, 23))
  /\ u[24] = "-"
  /\ (IsUpperLetter(u[25]) \/ IsDigit(u[25]))

NoParts == [year |-> 0, level |-> <<>>, levelCode |-> <<>>, country |-> <<>>,
            issuerCode |-> <<>>, serial |-> 0, checkDigit |-> <<>>]

\* Returns [kind |-> "ok", value |-> parts] or [kind |-> "null"].
parseCertificateNumber(certificateNumber) ==
  LET u == ToUpperCase(certificateNumber)
  IN IF ~CertificatePatternMatches(u)
       THEN [kind |-> "null", field |-> <<>>, listed |-> <<>>, value |-> NoParts]
     ELSE LET level == CODE_TO_LEVEL(<<u[9]>>)
          IN IF level.t = "undefined"
               THEN [kind |-> "null", field |-> <<>>, listed |-> <<>>, value |-> NoParts]
             ELSE [kind |-> "ok", field |-> <<>>, listed |-> <<>>,
                   value |-> [year |-> ParseInt(SubSeq(u, 4, 7)),
                              level |-> level.s,
                              levelCode |-> <<u[9]>>,
                              country |-> SubSeq(u, 11, 12),
                              issuerCode |-> SubSeq(u, 14, 16),
                              serial |-> ParseInt(SubSeq(u, 18, 23)),
                              checkDigit |-> <<u[25]>>]]

\* validateCertificateNumber rebuilding the base without padding the serial.
validateCertificateNumber_NoPad(certificateNumber) ==
  LET parsed == parseCertificateNumber(certificateNumber)
  IN IF parsed.kind = "null" THEN FALSE
     ELSE LET parts == parsed.value
              base == <<"R", "S">> \o NumToString(parts.year) \o parts.levelCode \o parts.country
                        \o parts.issuerCode \o NumToString(parts.serial)
          IN verifyISO7064(base, parts.checkDigit)

validateCertificateNumber(certificateNumber) ==
  LET parsed == parseCertificateNumber(certificateNumber)
  IN IF parsed.kind = "null" THEN FALSE
     ELSE LET parts == parsed.value
              paddedSerial == PadStart(NumToString(parts.serial), SerialWidth, "0")
              base == <<"R", "S">> \o NumToString(parts.year) \o parts.levelCode \o parts.country
                        \o parts.issuerCode \o paddedSerial
          IN verifyISO7064(base, parts.checkDigit)

(***************************************************************************)
(* Field lists (types/index.ts)                                            *)
(***************************************************************************)
ALLOWED_PUBLIC_FIELDS ==
  <<<<"g", "i", "v", "e", "n", "N", "a", "m", "e">>, <<"f", "a", "m", "i", "l", "y", "N", "a", "m", "e">>, <<"l", "e", "v", "e", "l">>, <<"v", "a", "l", "i", "d", "F", "r", "o", "m">>, <<"v", "a", "l", "i", "d", "U", "n", "t", "i", "l">>>>

FORBIDDEN_FIELDS ==
  <<<<"e", "m", "a", "i", "l">>, <<"p", "h", "o", "n", "e">>, <<"m", "o", "b", "i", "l", "e">>, <<"a", "d", "d", "r", "e", "s", "s">>, <<"d", "a", "t", "e", "O", "f", "B", "i", "r", "t", "h">>, <<"d", "o", "b">>,
    <<"b", "i", "r", "t", "h", "D", "a", "t", "e">>, <<"g", "e", "n", "d", "e", "r">>, <<"s", "e", "x">>, <<"a", "g", "e">>, <<"a", "a", "d", "h", "a", "a", "r", "N", "u", "m", "b", "e", "r">>, <<"a", "a", "d", "h", "a", "a", "r">>,
    <<"p", "a", "n", "N", "u", "m", "b", "e", "r">>, <<"p", "a", "n">>, <<"p", "a", "s", "s", "p", "o", "r", "t">>, <<"p", "a", "s", "s", "p", "o", "r", "t", "N", "u", "m", "b", "e", "r">>, <<"d", "r", "i", "v", "i", "n", "g", "L", "i", "c", "e", "n", "s", "e">>,
    <<"l", "i", "c", "e", "n", "s", "e", "N", "u", "m", "b", "e", "r">>, <<"s", "o", "c", "i", "a", "l", "S", "e", "c", "u", "r", "i", "t", "y", "N", "u", "m", "b", "e", "r">>, <<"s", "s", "n">>, <<"n", "a", "t", "i", "o", "n", "a", "l", "I", "d">>,
    <<"v", "o", "t", "e", "r", "I", "d">>, <<"t", "e", "s", "t", "S", "c", "o", "r", "e">>, <<"s", "c", "o", "r", "e">>, <<"h", "a", "z", "a", "r", "d", "S", "c", "o", "r", "e">>, <<"p", "r", "a", "c", "t", "i", "c", "a", "l", "S", "c", "o", "r", "e">>,
    <<"t", "h", "e", "o", "r", "y", "S", "c", "o", "r", "e">>, <<"g", "r", "a", "d", "e">>, <<"m", "a", "r", "k", "s">>, <<"b", "a", "n", "k", "A", "c", "c", "o", "u", "n", "t">>, <<"a", "c", "c", "o", "u", "n", "t", "N", "u", "m", "b", "e", "r">>,
    <<"i", "f", "s", "c">>, <<"u", "p", "i">>, <<"c", "r", "e", "d", "i", "t", "C", "a", "r", "d">>, <<"s", "a", "l", "a", "r", "y">>, <<"i", "n", "c", "o", "m", "e">>, <<"i", "n", "t", "e", "r", "n", "a", "l", "R", "i", "d", "e", "r", "I", "d">>,
    <<"r", "i", "d", "e", "r", "I", "d">>, <<"i", "n", "t", "e", "r", "n", "a", "l", "I", "d">>, <<"e", "x", "t", "e", "r", "n", "a", "l", "I", "d">>, <<"e", "m", "p", "l", "o", "y", "e", "e", "I", "d">>, <<"s", "t", "a", "f", "f", "I", "d">>,
    <<"l", "o", "c", "a", "t", "i", "o", "n">>, <<"g", "p", "s">>, <<"c", "o", "o", "r", "d", "i", "n", "a", "t", "e", "s">>, <<"h", "o", "m", "e", "A", "d", "d", "r", "e", "s", "s">>, <<"w", "o", "r", "k", "A", "d", "d", "r", "e", "s", "s">>,
    <<"p", "h", "o", "t", "o">>, <<"p", "h", "o", "t", "o", "g", "r", "a", "p", "h">>, <<"f", "i", "n", "g", "e", "r", "p", "r", "i", "n", "t">>, <<"b", "i", "o", "m", "e", "t", "r", "i", "c">>, <<"f", "a", "c", "e", "I", "d">>>>

(***************************************************************************)
(* Field checks (protocol/index.ts)                                        *)
(***************************************************************************)
\* isForbiddenField comparing the name as typed.
isForbiddenField_CaseSensitive(field) ==
  field \in {FORBIDDEN_FIELDS[i] : i \in 1..Len(FORBIDDEN_FIELDS)}

\* f.toLowerCase() for every f of FORBIDDEN_FIELDS
ForbiddenLowerCased == {ToLowerCase(FORBIDDEN_FIELDS[i]) : i \in 1..Len(FORBIDDEN_FIELDS)}

isForbiddenField(field) == ToLowerCase(field) \in ForbiddenLowerCased

\* isAllowedField lower-casing both sides, as isForbiddenField does.
isAllowedField_IgnoreCase(field) ==
  \E i \in 1..Len(ALLOWED_PUBLIC_FIELDS) :
    ToLowerCase(ALLOWED_PUBLIC_FIELDS[i]) = ToLowerCase(field)

isAllowedField(field) ==
  \E i \in 1..Len(ALLOWED_PUBLIC_FIELDS) : ALLOWED_PUBLIC_FIELDS[i] = field

\* The forbidden keys of a nested container, reported as container.key; none
\* when data[container] is not an object.
NestedForbidden(data, container) ==
  LET v == Get(data, container)
  IN IF v.t = "object"
     THEN LET found == SelectSeq(ObjectKeys(v.o), isForbiddenField)
          IN [i \in 1..Len(found) |-> container \o <<".">> \o found[i]]
     ELSE <<>>

\* detectForbiddenFields scanning the attributes container before publicAttributes.
detectForbiddenFields_AttributesFirst(data) ==
  SelectSeq(ObjectKeys(data), isForbiddenField)
    \o NestedForbidden(data, <<"a", "t", "t", "r", "i", "b", "u", "t", "e", "s">>)
    \o NestedForbidden(data, <<"p", "u", "b", "l", "i", "c", "A", "t", "t", "r", "i", "b", "u", "t", "e", "s">>)

detectForbiddenFields(data) ==
  SelectSeq(ObjectKeys(data), isForbiddenField)
    \o NestedForbidden(data, <<"p", "u", "b", "l", "i", "c", "A", "t", "t", "r", "i", "b", "u", "t", "e", "s">>)
    \o NestedForbidden(data, <<"a", "t", "t", "r", "i", "b", "u", "t", "e", "s">>)

IsUnknownField(key) == ~isAllowedField(key) /\ ~isForbiddenField(key)

detectUnknownFields(data) == SelectSeq(ObjectKeys(data), IsUnknownField)

(***************************************************************************)
(* Attribute validation (protocol/index.ts)                                *)
(***************************************************************************)
validateLevel(level) ==
  level.t = "string" /\ level.s \in {<<"b", "r", "o", "n", "z", "e">>, <<"s", "i", "l", "v", "e", "r">>, <<"g", "o", "l", "d">>}

MaxNameLength == 100

\* Members of [\u0000-\u001F\u007F-\u009F] that the inputs use.
ControlChars == {"U+0000", "U+0009", "U+000A", "U+001F", "U+007F", "U+009F"}

\* Characters String.prototype.trim removes.
WhiteSpaceChars == {" ", "U+0009", "U+000A", "U+00A0", "U+3000", "U+FEFF"}

\* /<[^>]*>/ : a "<" with a ">" somewhere after it.
HasHtmlTag(s) == \E i \in 1..Len(s) : \E j \in (i + 1)..Len(s) : s[i] = "<" /\ s[j] = ">"

validateName(name) ==
  /\ name.t = "string"
  /\ Len(name.s) >= 1
  /\ Len(name.s) <= MaxNameLength
  /\ ~\E i \in 1..Len(name.s) : name.s[i] \in ControlChars
  /\ ~HasHtmlTag(name.s)
  /\ \E i \in 1..Len(name.s) : name.s[i] \notin WhiteSpaceChars

\* /^\d{4}-(0[1-9]|1[0-2])-(0[1-9]|[12]\d|3[01])(T\d{2}:\d{2}:\d{2}(\.\d{3})?Z?)?$/
IsoDatePatternMatches(s) ==
  /\ Len(s) \in {10, 19, 20, 23, 24}
  /\ AllDigits(SubSeq(s, 1, 4))
  /\ s[5] = "-"
  /\ \/ s[6] = "0" /\ s[7] \in {"1", "2", "3", "4", "5", "6", "7", "8", "9"}
     \/ s[6] = "1" /\ s[7] \in {"0", "1", "2"}
  /\ s[8] = "-"
  /\ \/ s[9] = "0" /\ s[10] \in {"1", "2", "3", "4", "5", "6", "7", "8", "9"}
     \/ s[9] \in {"1", "2"} /\ IsDigit(s[10])
     \/ s[9] = "3" /\ s[10] \in {"0", "1"}
  /\ Len(s) > 10 =>
       /\ s[11] = "T"
       /\ AllDigits(SubSeq(s, 12, 13))
       /\ s[14] = ":"
       /\ AllDigits(SubSeq(s, 15, 16))
       /\ s[17] = ":"
       /\ AllDigits(SubSeq(s, 18, 19))
       /\ Len(s) = 20 => s[20] = "Z"
       /\ Len(s) >= 23 => (s[20] = "." /\ AllDigits(SubSeq(s, 21, 23)))
       /\ Len(s) = 24 => s[24] = "Z"

(***************************************************************************)
(* new Date(isoString).getTime() for a string the pattern accepts: NaN or  *)
(* <<day number, millisecond of the day>> in UTC.  A date-only string and  *)
(* one ending in Z are UTC; a date-time without Z is local time, which is  *)
(* tzOffsetMin minutes ahead of UTC.  A day past the end of its month is   *)
(* Invalid Date on one engine and rolls into the next month on another     *)
(* (lenientDates).                                                         *)
(***************************************************************************)
NaN == <<>>

MsPerDay == 86400000

MsPerMinute == 60000

IsLeapYear(y) == (y % 4 = 0 /\ y % 100 # 0) \/ y % 400 = 0

DaysInMonth(y, m) ==
  IF m = 2 THEN (IF IsLeapYear(y) THEN 29 ELSE 28)
  ELSE IF m \in {4, 6, 9, 11} THEN 30
  ELSE 31

\* Days from 0000-03-01 to the first of month m of year y (proleptic Gregorian).
DayOfMonthStart(y, m) ==
  LET yy == IF m <= 2 THEN y - 1 ELSE y
      mm == IF m <= 2 THEN m + 9 ELSE m - 3
  IN 365 * yy + (yy \div 4) - (yy \div 100) + (yy \div 400) + ((153 * mm + 2) \div 5)

DateTimeValue(s, tz, lenient) ==
  LET y == ParseInt(SubSeq(s, 1, 4))
      m == ParseInt(SubSeq(s, 6, 7))
      d == ParseInt(SubSeq(s, 9, 10))
      hasTime == Len(s) > 10
      hh == IF hasTime THEN ParseInt(SubSeq(s, 12, 13)) ELSE 0
      mi == IF hasTime THEN ParseInt(SubSeq(s, 15, 16)) ELSE 0
      ss == IF hasTime THEN ParseInt(SubSeq(s, 18, 19)) ELSE 0
      ms == IF Len(s) >= 23 THEN ParseInt(SubSeq(s, 21, 23)) ELSE 0
      isUtc == ~hasTime \/ s[Len(s)] = "Z"
      timeOk == (hh <= 23 /\ mi <= 59 /\ ss <= 59) \/ (hh = 24 /\ mi = 0 /\ ss = 0 /\ ms = 0)
      dayOk == d <= DaysInMonth(y, m) \/ lenient
      t == ((hh * 60 + mi) * 60 + ss) * 1000 + ms
             - (IF isUtc THEN 0 ELSE tz * MsPerMinute)
  IN IF ~timeOk \/ ~dayOk THEN NaN
     ELSE <<DayOfMonthStart(y, m) + (d - 1) + (t \div MsPerDay), t % MsPerDay>>

\* a <= b on time values
TimeLessEq(a, b) == a[1] < b[1] \/ (a[1] = b[1] /\ a[2] <= b[2])

TimeLess(a, b) == a[1] < b[1] \/ (a[1] = b[1] /\ a[2] < b[2])

validateISODate(date, tz, lenient) ==
  /\ date.t = "string"
  /\ IsoDatePatternMatches(date.s)
  /\ DateTimeValue(date.s, tz, lenient) # NaN

(***************************************************************************)
(* enforcePublicAttributesOnly (protocol/index.ts), step by step.  A step  *)
(* gives the exception it throws, or NoThrow.                              *)
(***************************************************************************)
NoThrow == NoResult

\* STEP 1: forbidden fields; the error names the first and lists them all.
CheckForbidden(data) ==
  LET forbidden == detectForbiddenFields(data)
  IN IF Len(forbidden) > 0
     THEN [kind |-> "ProtocolViolationError", field |-> forbidden[1], value |-> <<>>,
           listed |-> forbidden]
     ELSE NoThrow

IsMissing(v) == v.t = "undefined" \/ v.t = "null"

\* STEP 2: required fields, in the order givenName, familyName, level,
\* validFrom, validUntil.
CheckRequired(data) ==
  IF IsMissing(Get(data, <<"g", "i", "v", "e", "n", "N", "a", "m", "e">>)) THEN Throw("MissingAttributeError", <<"g", "i", "v", "e", "n", "N", "a", "m", "e">>)
  ELSE IF IsMissing(Get(data, <<"f", "a", "m", "i", "l", "y", "N", "a", "m", "e">>)) THEN Throw("MissingAttributeError", <<"f", "a", "m", "i", "l", "y", "N", "a", "m", "e">>)
  ELSE IF IsMissing(Get(data, <<"l", "e", "v", "e", "l">>)) THEN Throw("MissingAttributeError", <<"l", "e", "v", "e", "l">>)
  ELSE IF IsMissing(Get(data, <<"v", "a", "l", "i", "d", "F", "r", "o", "m">>)) THEN Throw("MissingAttributeError", <<"v", "a", "l", "i", "d", "F", "r", "o", "m">>)
  ELSE IF IsMissing(Get(data, <<"v", "a", "l", "i", "d", "U", "n", "t", "i", "l">>)) THEN Throw("MissingAttributeError", <<"v", "a", "l", "i", "d", "U", "n", "t", "i", "l">>)
  ELSE NoThrow

\* STEP 3: field formats.
CheckFormats(data, tz, lenient) ==
  IF ~validateName(Get(data, <<"g", "i", "v", "e", "n", "N", "a", "m", "e">>))
    THEN Throw("AttributeValidationError", <<"g", "i", "v", "e", "n", "N", "a", "m", "e">>)
  ELSE IF ~validateName(Get(data, <<"f", "a", "m", "i", "l", "y", "N", "a", "m", "e">>))
    THEN Throw("AttributeValidationError", <<"f", "a", "m", "i", "l", "y", "N", "a", "m", "e">>)
  ELSE IF ~validateLevel(Get(data, <<"l", "e", "v", "e", "l">>))
    THEN Throw("AttributeValidationError", <<"l", "e", "v", "e", "l">>)
  ELSE IF ~validateISODate(Get(data, <<"v", "a", "l", "i", "d", "F", "r", "o", "m">>), tz, lenient)
    THEN Throw("AttributeValidationError", <<"v", "a", "l", "i", "d", "F", "r", "o", "m">>)
  ELSE IF ~validateISODate(Get(data, <<"v", "a", "l", "i", "d", "U", "n", "t", "i", "l">>), tz, lenient)
    THEN Throw("AttributeValidationError", <<"v", "a", "l", "i", "d", "U", "n", "t", "i", "l">>)
  ELSE NoThrow

\* STEP 4 with untilDate < fromDate.
CheckDateRange_AllowEqual(data, tz, lenient) ==
  LET fromDate == DateTimeValue(Get(data, <<"v", "a", "l", "i", "d", "F", "r", "o", "m">>).s, tz, lenient)
      untilDate == DateTimeValue(Get(data, <<"v", "a", "l", "i", "d", "U", "n", "t", "i", "l">>).s, tz, lenient)
  IN IF TimeLess(untilDate, fromDate)
     THEN Throw("AttributeValidationError", <<"v", "a", "l", "i", "d", "U", "n", "t", "i", "l">>)
     ELSE NoThrow

\* STEP 4: date range.
CheckDateRange(data, tz, lenient) ==
  LET fromDate == DateTimeValue(Get(data, <<"v", "a", "l", "i", "d", "F", "r", "o", "m">>).s, tz, lenient)
      untilDate == DateTimeValue(Get(data, <<"v", "a", "l", "i", "d", "U", "n", "t", "i", "l">>).s, tz, lenient)
  IN IF TimeLessEq(untilDate, fromDate)
     THEN Throw("AttributeValidationError", <<"v", "a", "l", "i", "d", "U", "n", "t", "i", "l">>)
     ELSE NoThrow

\* STEP 5 returning the input object itself.
CleanAttributes_PassThrough(data) == data

\* STEP 5 storing the level as its one-letter code.
CleanAttributes_LevelCode(data) ==
  <<Entry(<<"g", "i", "v", "e", "n", "N", "a", "m", "e">>, Get(data, <<"g", "i", "v", "e", "n", "N", "a", "m", "e">>)),
    Entry(<<"f", "a", "m", "i", "l", "y", "N", "a", "m", "e">>, Get(data, <<"f", "a", "m", "i", "l", "y", "N", "a", "m", "e">>)),
    Entry(<<"l", "e", "v", "e", "l">>, LEVEL_CODES(Get(data, <<"l", "e", "v", "e", "l">>).s)),
    Entry(<<"v", "a", "l", "i", "d", "F", "r", "o", "m">>, Get(data, <<"v", "a", "l", "i", "d", "F", "r", "o", "m">>)),
    Entry(<<"v", "a", "l", "i", "d", "U", "n", "t", "i", "l">>, Get(data, <<"v", "a", "l", "i", "d", "U", "n", "t", "i", "l">>))>>

\* STEP 5: a new object with the five fields only.
CleanAttributes(data) ==
  <<Entry(<<"g", "i", "v", "e", "n", "N", "a", "m", "e">>, Get(data, <<"g", "i", "v", "e", "n", "N", "a", "m", "e">>)),
    Entry(<<"f", "a", "m", "i", "l", "y", "N", "a", "m", "e">>, Get(data, <<"f", "a", "m", "i", "l", "y", "N", "a", "m", "e">>)),
    Entry(<<"l", "e", "v", "e", "l">>, Get(data, <<"l", "e", "v", "e", "l">>)),
    Entry(<<"v", "a", "l", "i", "d", "F", "r", "o", "m">>, Get(data, <<"v", "a", "l", "i", "d", "F", "r", "o", "m">>)),
    Entry(<<"v", "a", "l", "i", "d", "U", "n", "t", "i", "l">>, Get(data, <<"v", "a", "l", "i", "d", "U", "n", "t", "i", "l">>))>>

\* A check of detectUnknownFields that enforcePublicAttributesOnly does not make.
CheckUnknown(data) ==
  LET unknown == detectUnknownFields(data)
  IN IF Len(unknown) > 0 THEN Throw("ProtocolViolationError", unknown[1]) ELSE NoThrow

\* enforcePublicAttributesOnly with the required-field check first.
enforcePublicAttributesOnly_RequiredFirst(data, tz, lenient) ==
  LET missing == CheckRequired(data)
      forbidden == CheckForbidden(data)
      invalid == CheckFormats(data, tz, lenient)
      range == CheckDateRange(data, tz, lenient)
  IN IF missing.kind # "none" THEN missing
     ELSE IF forbidden.kind # "none" THEN forbidden
     ELSE IF invalid.kind # "none" THEN invalid
     ELSE IF range.kind # "none" THEN range
     ELSE Returned(CleanAttributes(data))

\* enforcePublicAttributesOnly validating formats before presence.
enforcePublicAttributesOnly_FormatsFirst(data, tz, lenient) ==
  LET forbidden == CheckForbidden(data)
      invalid == CheckFormats(data, tz, lenient)
      missing == CheckRequired(data)
      range == CheckDateRange(data, tz, lenient)
  IN IF forbidden.kind # "none" THEN forbidden
     ELSE IF invalid.kind # "none" THEN invalid
     ELSE IF missing.kind # "none" THEN missing
     ELSE IF range.kind # "none" THEN range
     ELSE Returned(CleanAttributes(data))

\* enforcePublicAttributesOnly also rejecting the keys detectUnknownFields finds.
enforcePublicAttributesOnly_RejectUnknown(data, tz, lenient) ==
  LET forbidden == CheckForbidden(data)
      unknown == CheckUnknown(data)
      missing == CheckRequired(data)
      invalid == CheckFormats(data, tz, lenient)
      range == CheckDateRange(data, tz, lenient)
  IN IF forbidden.kind # "none" THEN forbidden
     ELSE IF unknown.kind # "none" THEN unknown
     ELSE IF missing.kind # "none" THEN missing
     ELSE IF invalid.kind # "none" THEN invalid
     ELSE IF range.kind # "none" THEN range
     ELSE Returned(CleanAttributes(data))

\* Returns [kind |-> "ok", value |-> attributes] or the exception thrown.
enforcePublicAttributesOnly(data, tz, lenient) ==
  LET forbidden == CheckForbidden(data)
      missing == CheckRequired(data)
      invalid == CheckFormats(data, tz, lenient)
      range == CheckDateRange(data, tz, lenient)
  IN IF forbidden.kind # "none" THEN forbidden
     ELSE IF missing.kind # "none" THEN missing
     ELSE IF invalid.kind # "none" THEN invalid
     ELSE IF range.kind # "none" THEN range
     ELSE Returned(CleanAttributes(data))

(***************************************************************************)
(* Inputs of the certificate-number calls                                  *)
(***************************************************************************)
\* Country letters are drawn from the first LetterBound letters, both cases.
LetterBound == 2

\* Serials 1..SerialBound are tried besides the boundary serials.
SerialBound == 3

CountryLetters ==
  {UpperLetters[i] : i \in 1..LetterBound} \cup {LowerLetters[i] : i \in 1..LetterBound}

Countries ==
  {<<a, b>> : a \in CountryLetters, b \in CountryLetters}
    \cup {<<"I", "N">>, <<"i", "n">>, <<"I", "N", "D">>, <<"1", "N">>, <<"U+00DF">>}

IssuerCodes == {<<"S", "W", "G">>, <<"s", "w", "g">>, <<"Z", "m", "t">>, <<"S", "W">>, <<"S", " ", "G">>}

Years == {Num(MinYear - 1), Num(MinYear), Num(2026), Num(MaxYear), Num(MaxYear + 1), Frac(2026)}

Levels == {<<"b", "r", "o", "n", "z", "e">>, <<"s", "i", "l", "v", "e", "r">>, <<"g", "o", "l", "d">>, <<"p", "l", "a", "t", "i", "n", "u", "m">>, <<"c", "o", "n", "s", "t", "r", "u", "c", "t", "o", "r">>}

Serials ==
  {Num(n) : n \in 0..SerialBound}
    \cup {Num(9), Num(10), Num(99999), Num(100000), Num(MaxSerial), Num(MaxSerial + 1), Frac(1)}

CertificateOptions ==
  [year : Years, level : Levels, country : Countries, issuerCode : IssuerCodes,
   serial : Serials]

\* The inputs generateCertificateNumber documents as valid.
ValidOptions(o) ==
  /\ o.year.t = "number" /\ o.year.n >= MinYear /\ o.year.n <= MaxYear
  /\ o.level \in {<<"b", "r", "o", "n", "z", "e">>, <<"s", "i", "l", "v", "e", "r">>, <<"g", "o", "l", "d">>}
  /\ Len(o.country) = 2
  /\ \A i \in 1..Len(o.country) :
       IndexOf(UpperLetters, o.country[i]) # -1 \/ IndexOf(LowerLetters, o.country[i]) # -1
  /\ Len(o.issuerCode) = 3
  /\ \A i \in 1..Len(o.issuerCode) :
       IndexOf(UpperLetters, o.issuerCode[i]) # -1 \/ IndexOf(LowerLetters, o.issuerCode[i]) # -1
  /\ o.serial.t = "number" /\ o.serial.n >= MinSerial /\ o.serial.n <= MaxSerial

(***************************************************************************)
(* The caller                                                              *)
(***************************************************************************)
InitCert ==
  /\ pc = "idle"
  /\ op = "none"
  /\ arg = NoInput
  /\ res = NoResult
  /\ src = NoInput
  /\ tzOffsetMin = 0
  /\ lenientDates = FALSE

\* generateCertificateNumber(options)
GenerateCertificateNumber ==
  /\ pc = "idle"
  /\ \E options \in CertificateOptions :
       /\ arg' = options
       /\ src' = options
       /\ res' = generateCertificateNumber(options)
  /\ op' = "generateCertificateNumber"
  /\ pc' = "returned"
  /\ UNCHANGED <<tzOffsetMin, lenientDates>>

\* validateCertificateNumber(certNumber) on the number just generated
ValidateGenerated ==
  /\ pc = "returned"
  /\ op = "generateCertificateNumber"
  /\ res.kind = "ok"
  /\ arg' = res.value
  /\ res' = Returned(validateCertificateNumber(res.value))
  /\ op' = "validateCertificateNumber"
  /\ pc' = "done"
  /\ UNCHANGED <<src, tzOffsetMin, lenientDates>>

\* parseCertificateNumber(certNumber) on the number just generated
ParseGenerated ==
  /\ pc = "returned"
  /\ op = "generateCertificateNumber"
  /\ res.kind = "ok"
  /\ arg' = res.value
  /\ res' = parseCertificateNumber(res.value)
  /\ op' = "parseCertificateNumber"
  /\ pc' = "done"
  /\ UNCHANGED <<src, tzOffsetMin, lenientDates>>

NextCert == GenerateCertificateNumber \/ ValidateGenerated \/ ParseGenerated

SpecCert == InitCert /\ [][NextCert]_vars

(***************************************************************************)
(* Inputs of the privacy-gate calls                                        *)
(***************************************************************************)
\* A field the input object does not have.
Absent == [t |-> "absent", s |-> <<>>, n |-> 0, o |-> <<>>]

\* Forbidden names of at most SpellBound characters are tried in every
\* upper/lower-case spelling, longer ones in the spellings of LongSpellings.
SpellBound == 3

Repeat(c, n) == [i \in 1..n |-> c]

NameValues ==
  {Str(<<"R">>), Str(<<"R", "a", "h", "u", "l">>), Str(<<"U+0930", "U+093E">>), Str(Repeat("a", MaxNameLength)),
   Str(<<>>), Str(Repeat("a", MaxNameLength + 1)), Str(<<"<", "b", ">">>), Str(<<"a", "<", "b">>),
   Str(<<" ">>), Str(<<"U+00A0">>), Str(<<"a", "U+0009">>), Num(7), Obj(<<>>),
   Null, Undefined, Absent}

LevelValues ==
  {Str(<<"g", "o", "l", "d">>), Str(<<"s", "i", "l", "v", "e", "r">>), Str(<<"b", "r", "o", "n", "z", "e">>), Str(<<"p", "l", "a", "t", "i", "n", "u", "m">>), Str(<<"G", "o", "l", "d">>),
   Num(1), Null, Undefined, Absent}

DateStrings ==
  {<<"2", "0", "2", "6", "-", "0", "1", "-", "0", "1">>, <<"2", "0", "2", "6", "-", "0", "1", "-", "0", "2">>, <<"2", "0", "2", "5", "-", "1", "2", "-", "3", "1">>, <<"2", "0", "2", "6", "-", "0", "3", "-", "0", "2">>, <<"2", "0", "2", "8", "-", "0", "2", "-", "2", "9">>,
   <<"2", "0", "2", "6", "-", "0", "1", "-", "0", "1", "T", "0", "0", ":", "0", "0", ":", "0", "0">>, <<"2", "0", "2", "6", "-", "0", "1", "-", "0", "1", "T", "0", "0", ":", "0", "0", ":", "0", "0", "Z">>, <<"2", "0", "2", "6", "-", "0", "1", "-", "0", "1", "T", "0", "5", ":", "3", "0", ":", "0", "0", ".", "0", "0", "0", "Z">>,
   <<"2", "0", "2", "5", "-", "1", "2", "-", "3", "1", "T", "1", "9", ":", "0", "0", ":", "0", "0", ".", "0", "0", "0">>, <<"2", "0", "2", "6", "-", "0", "1", "-", "0", "1", "T", "2", "4", ":", "0", "0", ":", "0", "0", "Z">>, <<"2", "0", "2", "6", "-", "0", "1", "-", "0", "1", "T", "0", "0", ":", "0", "0", ":", "0", "0", ".", "0", "0", "1">>,
   <<"2", "0", "2", "6", "-", "0", "2", "-", "3", "0">>, <<"2", "0", "2", "6", "-", "0", "1", "-", "0", "1", "T", "2", "5", ":", "0", "0", ":", "0", "0">>, <<"1", "5", "-", "0", "1", "-", "2", "0", "2", "6">>, <<"2", "0", "2", "6", "-", "1", "3", "-", "0", "1">>, <<"2", "0", "2", "6", "-", "1", "-", "1">>}

DateValues == {Str(s) : s \in DateStrings} \cup {Num(20260101), Null, Undefined, Absent}

ValidGiven == Str(<<"R">>)

ValidFamily == Str(<<"K">>)

ValidLevel == Str(<<"g", "o", "l", "d">>)

ValidFrom == Str(<<"2", "0", "2", "6", "-", "0", "1", "-", "0", "1">>)

ValidUntil == Str(<<"2", "0", "2", "6", "-", "0", "1", "-", "0", "2">>)

\* The object literal with the five fields, without the absent ones.
Fields(g, f, l, vf, vu) ==
  LET all == <<Entry(<<"g", "i", "v", "e", "n", "N", "a", "m", "e">>, g), Entry(<<"f", "a", "m", "i", "l", "y", "N", "a", "m", "e">>, f), Entry(<<"l", "e", "v", "e", "l">>, l),
               Entry(<<"v", "a", "l", "i", "d", "F", "r", "o", "m">>, vf), Entry(<<"v", "a", "l", "i", "d", "U", "n", "t", "i", "l">>, vu)>>
      Present(e) == e.v.t # "absent"
  IN SelectSeq(all, Present)

ValidAttributes == Fields(ValidGiven, ValidFamily, ValidLevel, ValidFrom, ValidUntil)

\* Keys put before and after the five fields.
ExtraKeys ==
  {<< <<>>, <<>> >>,
   << <<>>, <<Entry(<<"e", "m", "a", "i", "l">>, Str(<<"x", "@", "y", ".", "c", "o", "m">>))>> >>,
   << <<Entry(<<"e", "m", "a", "i", "l">>, Str(<<"x", "@", "y", ".", "c", "o", "m">>))>>, <<>> >>,
   << <<Entry(<<"p", "h", "o", "n", "e">>, Num(5))>>, <<Entry(<<"e", "m", "a", "i", "l">>, Str(<<"x", "@", "y", ".", "c", "o", "m">>))>> >>,
   << <<>>, <<Entry(<<"d", "r", "i", "v", "e", "r", "s", "L", "i", "c", "e", "n", "s", "e">>, Str(<<"K", "A", "0", "1">>))>> >>,
   << <<Entry(<<"n", "o", "t", "e">>, Null)>>, <<Entry(<<"E", "M", "A", "I", "L">>, Undefined)>> >>,
   << <<Entry(<<"p", "u", "b", "l", "i", "c", "A", "t", "t", "r", "i", "b", "u", "t", "e", "s">>, Obj(<<Entry(<<"s", "s", "n">>, Str(<<"1">>))>>))>>, <<>> >>,
   << <<Entry(<<"a", "t", "t", "r", "i", "b", "u", "t", "e", "s">>, Obj(<<Entry(<<"S", "c", "o", "r", "e">>, Num(9))>>))>>,
      <<Entry(<<"e", "m", "a", "i", "l">>, Str(<<"x", "@", "y", ".", "c", "o", "m">>))>> >>,
   << <<>>, <<Entry(<<"a", "t", "t", "r", "i", "b", "u", "t", "e", "s">>, Obj(<<Entry(<<"n", "o", "t", "e">>, Str(<<"n">>))>>))>> >>,
   << <<>>, <<Entry(<<"p", "u", "b", "l", "i", "c", "A", "t", "t", "r", "i", "b", "u", "t", "e", "s">>, Str(<<"e", "m", "a", "i", "l">>))>> >>}

CoreNames == {Str(<<"R">>), Str(<<>>), Absent}

CoreFamilies == {Str(<<"K">>), Null}

CoreLevels == {Str(<<"g", "o", "l", "d">>), Str(<<"p", "l", "a", "t", "i", "n", "u", "m">>), Absent}

CoreDates == {Str(<<"2", "0", "2", "6", "-", "0", "1", "-", "0", "1">>), Str(<<"2", "0", "2", "6", "-", "0", "1", "-", "0", "2">>), Str(<<"1", "5", "-", "0", "1", "-", "2", "0", "2", "6">>), Absent}

\* Every combination of a few values per field, with every choice of extra keys.
CombinedInputs ==
  {x[1] \o Fields(g, f, l, vf, vu) \o x[2] :
     g \in CoreNames, f \in CoreFamilies, l \in CoreLevels, vf \in CoreDates,
     vu \in CoreDates, x \in ExtraKeys}

\* Valid attributes with one field varied over all its values.
SingleFieldInputs ==
  {Fields(g, ValidFamily, ValidLevel, ValidFrom, ValidUntil) : g \in NameValues}
    \cup {Fields(ValidGiven, f, ValidLevel, ValidFrom, ValidUntil) : f \in NameValues}
    \cup {Fields(ValidGiven, ValidFamily, l, ValidFrom, ValidUntil) : l \in LevelValues}

\* Valid names and level with every pair of date values.
DatePairInputs ==
  {Fields(ValidGiven, ValidFamily, ValidLevel, vf, vu) : vf \in DateValues, vu \in DateValues}

\* s with the characters at the positions in up upper-cased, the others lower-cased.
Spell(s, up) ==
  [i \in 1..Len(s) |-> IF i \in up THEN UpperOfChar(s[i])[1] ELSE LowerOfChar(s[i])[1]]

LongSpellings(s) ==
  {s, Spell(s, {}), Spell(s, 1..Len(s)), Spell(s, {1}),
   Spell(s, {i \in 1..Len(s) : i % 2 = 0})}

Spellings(s) ==
  IF Len(s) <= SpellBound THEN {Spell(s, up) : up \in SUBSET (1..Len(s))}
  ELSE LongSpellings(s)

ForbiddenValues == {Str(<<"t", "e", "s", "t", " ", "v", "a", "l", "u", "e">>), Null}

\* Valid attributes plus one forbidden name in some spelling, with any value.
ForbiddenSpellingInputs ==
  UNION {{ValidAttributes \o <<Entry(k, v)>> : k \in Spellings(FORBIDDEN_FIELDS[i]),
                                               v \in ForbiddenValues} :
           i \in 1..Len(FORBIDDEN_FIELDS)}

GateInputs ==
  CombinedInputs \cup SingleFieldInputs \cup DatePairInputs \cup ForbiddenSpellingInputs

\* Minutes by which local time is ahead of UTC in the environments tried.
TimeZones == {-300, 0, 330}

(***************************************************************************)
(* The caller of the privacy gate                                          *)
(***************************************************************************)
InitGate ==
  /\ pc = "idle"
  /\ op = "none"
  /\ arg = NoInput
  /\ res = NoResult
  /\ src = NoInput
  /\ tzOffsetMin \in TimeZones
  /\ lenientDates \in BOOLEAN

\* enforcePublicAttributesOnly(data)
Enforce ==
  /\ pc = "idle"
  /\ \E data \in GateInputs :
       /\ arg' = data
       /\ src' = data
       /\ res' = enforcePublicAttributesOnly(data, tzOffsetMin, lenientDates)
  /\ op' = "enforcePublicAttributesOnly"
  /\ pc' = "returned"
  /\ UNCHANGED <<tzOffsetMin, lenientDates>>

\* enforcePublicAttributesOnly(result) on the attributes just returned
EnforceAgain ==
  /\ pc = "returned"
  /\ op = "enforcePublicAttributesOnly"
  /\ res.kind = "ok"
  /\ arg' = res.value
  /\ res' = enforcePublicAttributesOnly(res.value, tzOffsetMin, lenientDates)
  /\ op' = "enforceAgain"
  /\ pc' = "done"
  /\ UNCHANGED <<src, tzOffsetMin, lenientDates>>

NextGate == Enforce \/ EnforceAgain

SpecGate == InitGate /\ [][NextGate]_vars

(***************************************************************************)
(* Damm check character and verification codes (check-digits/index.ts,     *)
(* identifiers/index.ts)                                                   *)
(***************************************************************************)
\* Row interim + 1, column digit + 1.
DAMM_TABLE ==
  << <<0, 3, 1, 7, 5, 9, 8, 6, 4, 2>>,
     <<7, 0, 9, 2, 1, 5, 4, 8, 6, 3>>,
     <<4, 2, 0, 6, 8, 7, 1, 3, 5, 9>>,
     <<1, 7, 5, 0, 9, 8, 3, 4, 2, 6>>,
     <<6, 1, 2, 3, 0, 4, 5, 9, 7, 8>>,
     <<3, 6, 7, 4, 2, 0, 9, 5, 8, 1>>,
     <<5, 8, 6, 9, 7, 2, 0, 1, 3, 4>>,
     <<8, 9, 4, 5, 3, 6, 2, 0, 1, 7>>,
     <<9, 4, 3, 8, 6, 1, 7, 2, 0, 5>>,
     <<2, 5, 8, 1, 4, 3, 6, 7, 9, 0>> >>

VERIFICATION_CODE_ALPHABET == <<"A", "B", "C", "D", "E", "F", "G", "H", "J", "K", "M", "N", "P", "Q", "R", "S", "T", "U", "V", "W", "X", "Y", "Z", "2", "3", "4", "5", "6", "7", "8", "9">>

\* String.prototype.indexOf for a string argument: 0-based, -1 when absent.
IndexOfString(s, t) ==
  LET At(i) == SubSeq(s, i + 1, i + Len(t)) = t
      starts == {i \in 0..(Len(s) - Len(t)) : At(i)}
  IN IF starts = {} THEN -1 ELSE CHOOSE i \in starts : \A j \in starts : i <= j

\* The digit, or -1 where the function throws.
charToDigit(char) ==
  LET index == IndexOfString(VERIFICATION_CODE_ALPHABET, ToUpperCase(char))
  IN IF index = -1 THEN -1 ELSE index % 10

\* The loop over the characters: the last interim value, or -1 where a
\* character makes charToDigit throw.
RECURSIVE DammInterim(_, _)
DammInterim(s, interim) ==
  IF s = <<>> THEN interim
  ELSE LET digit == charToDigit(<<Head(s)>>)
       IN IF digit = -1 THEN -1
          ELSE DammInterim(Tail(s), DAMM_TABLE[interim + 1][digit + 1])

\* The check character, or "Error" when a character is outside the alphabet.
calculateDammCheck(input) ==
  LET interim == DammInterim(ToUpperCase(input), 0)
  IN IF interim = -1 THEN "Error"
     ELSE LET zeros == {d \in 0..9 : DAMM_TABLE[interim + 1][d + 1] = 0}
          IN IF zeros = {} THEN VERIFICATION_CODE_ALPHABET[1]
             ELSE VERIFICATION_CODE_ALPHABET[(CHOOSE d \in zeros : \A e \in zeros : d <= e) + 1]

validateDammFull(fullString) ==
  IF Len(fullString) < 2 THEN FALSE
  ELSE DammInterim(ToUpperCase(fullString), 0) = 0

\* code.replace(/[-\s]/g, '').toUpperCase()
cleanCode(code) ==
  LET Kept(c) == c # "-" /\ c \notin WhiteSpaceChars
  IN ToUpperCase(SelectSeq(code, Kept))

VerificationCodeLength == 8

VerificationBaseLength == 7

\* generateVerificationCode(), base being the string getRandomString drew.
generateVerificationCode(base) ==
  LET checkDigit == calculateDammCheck(base)
  IN IF checkDigit = "Error" THEN Throw("Error", <<>>)
     ELSE Returned(base \o <<checkDigit>>)

\* formatVerificationCode slicing the code as given instead of the cleaned one.
formatVerificationCode_SliceRaw(code) ==
  LET clean == cleanCode(code)
  IN IF Len(clean) # VerificationCodeLength THEN ToUpperCase(code)
     ELSE SubSeq(code, 1, 4) \o Hyphen \o SubSeq(code, 5, Len(code))

formatVerificationCode(code) ==
  LET clean == cleanCode(code)
  IN IF Len(clean) # VerificationCodeLength THEN ToUpperCase(code)
     ELSE SubSeq(clean, 1, 4) \o Hyphen \o SubSeq(clean, 5, Len(clean))

\* validateVerificationCode without the cleanCode step.
validateVerificationCode_NoClean(code) ==
  IF Len(code) # VerificationCodeLength THEN FALSE ELSE validateDammFull(code)

validateVerificationCode(code) ==
  LET clean == cleanCode(code)
  IN IF Len(clean) # VerificationCodeLength THEN FALSE ELSE validateDammFull(clean)

(***************************************************************************)
(* The caller of the verification-code functions                           *)
(***************************************************************************)
\* The random base has CodeBound characters drawn from the whole alphabet,
\* followed by the rest of one of BaseFillers.
CodeBound == 1

AlphabetChars == {VERIFICATION_CODE_ALPHABET[i] : i \in 1..Len(VERIFICATION_CODE_ALPHABET)}

BaseFillers == {<<"A", "3", "B", "7", "K", "9", "M">>, <<"Z", "Z", "Z", "Z", "Z", "Z", "Z">>, <<"2", "3", "4", "5", "6", "7", "8">>, <<"H", "J", "K", "M", "N", "P", "Q">>}

RandomBases ==
  {p \o SubSeq(f, CodeBound + 1, VerificationBaseLength) :
     p \in [1..CodeBound -> AlphabetChars], f \in BaseFillers}

\* Characters a mistyped code may hold in place of the right one.
SubstituteChars == AlphabetChars \cup {"a", "m", "0", "1", "I", "-"}

\* An 8-character input has FormatBound characters of FormatChars followed
\* by the rest of one of FormatFillers.
FormatBound == 2

FormatChars == {"A", "b", "3", "0", "-", " ", "U+00DF"}

FormatFillers == {<<"A", "3", "B", "7", "K", "9", "M", "2">>, <<"a", "3", "b", "7", "-", "k", "9", "m">>, <<"A", "3", " ", "B", "7", "-", "K", "9">>}

FormatInputs ==
  {p \o SubSeq(f, FormatBound + 1, VerificationCodeLength) :
     p \in [1..FormatBound -> FormatChars], f \in FormatFillers}

InitCode ==
  /\ pc = "idle"
  /\ op = "none"
  /\ arg = NoInput
  /\ res = NoResult
  /\ src = NoInput
  /\ tzOffsetMin = 0
  /\ lenientDates = FALSE

\* generateVerificationCode(): getRandomString draws the base.
GenerateVerificationCode ==
  /\ pc = "idle"
  /\ \E base \in RandomBases :
       /\ arg' = base
       /\ src' = base
       /\ res' = generateVerificationCode(base)
  /\ op' = "generateVerificationCode"
  /\ pc' = "returned"
  /\ UNCHANGED <<tzOffsetMin, lenientDates>>

\* validateVerificationCode(code) on the generated code, as stored or as
\* formatVerificationCode displays it.
ValidateGeneratedCode ==
  /\ pc = "returned"
  /\ op = "generateVerificationCode"
  /\ res.kind = "ok"
  /\ \E display \in BOOLEAN :
       LET code == IF display THEN formatVerificationCode(res.value) ELSE res.value
       IN /\ arg' = code
          /\ res' = Returned(validateVerificationCode(code))
  /\ op' = "validateVerificationCode"
  /\ pc' = "done"
  /\ UNCHANGED <<src, tzOffsetMin, lenientDates>>

\* formatVerificationCode(x)
FormatVerificationCode ==
  /\ pc = "idle"
  /\ \E x \in FormatInputs :
       /\ arg' = x
       /\ src' = x
       /\ res' = Returned(formatVerificationCode(x))
  /\ op' = "formatVerificationCode"
  /\ pc' = "returned"
  /\ UNCHANGED <<tzOffsetMin, lenientDates>>

\* formatVerificationCode on what formatVerificationCode returned
FormatFormatted ==
  /\ pc = "returned"
  /\ op = "formatVerificationCode"
  /\ arg' = res.value
  /\ res' = Returned(formatVerificationCode(res.value))
  /\ op' = "formatFormatted"
  /\ pc' = "done"
  /\ UNCHANGED <<src, tzOffsetMin, lenientDates>>

\* cleanCode on what formatVerificationCode returned
CleanFormatted ==
  /\ pc = "returned"
  /\ op = "formatVerificationCode"
  /\ arg' = res.value
  /\ res' = Returned(cleanCode(res.value))
  /\ op' = "cleanCode"
  /\ pc' = "done"
  /\ UNCHANGED <<src, tzOffsetMin, lenientDates>>

\* getVerificationCodeAlphabet()
GetVerificationCodeAlphabet ==
  /\ pc = "idle"
  /\ arg' = NoInput
  /\ src' = NoInput
  /\ res' = Returned(VERIFICATION_CODE_ALPHABET)
  /\ op' = "getVerificationCodeAlphabet"
  /\ pc' = "returned"
  /\ UNCHANGED <<tzOffsetMin, lenientDates>>

NextCode ==
  \/ GetVerificationCodeAlphabet
  \/ GenerateVerificationCode
  \/ ValidateGeneratedCode
  \/ FormatVerificationCode
  \/ FormatFormatted
  \/ CleanFormatted

SpecCode == InitCode /\ [][NextCode]_vars

\* validateVerificationCode(code) on the generated code with the character
\* at one position replaced by a different one.
ValidateSubstituted ==
  /\ pc = "returned"
  /\ op = "generateVerificationCode"
  /\ res.kind = "ok"
  /\ \E i \in 1..Len(res.value) : \E c \in SubstituteChars :
       /\ c # res.value[i]
       /\ arg' = [res.value EXCEPT ![i] = c]
       /\ src' = [code |-> res.value, edit |-> "substitution", at |-> i]
       /\ res' = Returned(validateVerificationCode([res.value EXCEPT ![i] = c]))
  /\ op' = "validateVerificationCode"
  /\ pc' = "done"
  /\ UNCHANGED <<tzOffsetMin, lenientDates>>

\* validateVerificationCode(code) on the generated code with two adjacent,
\* different characters swapped.
ValidateTransposed ==
  /\ pc = "returned"
  /\ op = "generateVerificationCode"
  /\ res.kind = "ok"
  /\ \E i \in 1..(Len(res.value) - 1) :
       LET code == [res.value EXCEPT ![i] = res.value[i + 1], ![i + 1] = res.value[i]]
       IN /\ res.value[i] # res.value[i + 1]
          /\ arg' = code
          /\ src' = [code |-> res.value, edit |-> "transposition", at |-> i]
          /\ res' = Returned(validateVerificationCode(code))
  /\ op' = "validateVerificationCode"
  /\ pc' = "done"
  /\ UNCHANGED <<tzOffsetMin, lenientDates>>

NextCodeError == GenerateVerificationCode \/ ValidateSubstituted \/ ValidateTransposed

SpecCodeError == InitCode /\ [][NextCodeError]_vars

(***************************************************************************)
(* The caller of the MOD 11,10 functions                                   *)
(***************************************************************************)
\* Inputs are the strings of 1..IsoBound characters.
IsoBound == 2

IsoAlphabetChars == {ISO7064_ALPHABET[i] : i \in 1..Len(ISO7064_ALPHABET)}

\* The alphabet, a lower-case letter and a character outside the alphabet.
IsoInputChars == IsoAlphabetChars \cup {"a", "-"}

IsoInputs == UNION {[1..n -> IsoInputChars] : n \in 1..IsoBound}

InitIso ==
  /\ pc = "idle"
  /\ op = "none"
  /\ arg = NoInput
  /\ res = NoResult
  /\ src = NoInput
  /\ tzOffsetMin = 0
  /\ lenientDates = FALSE

\* calculateISO7064Check(input)
CalculateISO7064Check ==
  /\ pc = "idle"
  /\ \E input \in IsoInputs :
       LET checkDigit == calculateISO7064Check(input)
       IN /\ arg' = input
          /\ src' = input
          /\ res' = IF checkDigit = "Error" THEN Throw("Error", <<>>)
                    ELSE Returned(<<checkDigit>>)
  /\ op' = "calculateISO7064Check"
  /\ pc' = "returned"
  /\ UNCHANGED <<tzOffsetMin, lenientDates>>

\* verifyISO7064(altered, checkDigit): the input with one character replaced
\* by a different character of the alphabet, against the check character of
\* the input.
VerifySubstituted ==
  /\ pc = "returned"
  /\ op = "calculateISO7064Check"
  /\ res.kind = "ok"
  /\ \E i \in 1..Len(arg) : \E c \in IsoAlphabetChars :
       /\ c # arg[i]
       /\ arg' = [arg EXCEPT ![i] = c]
       /\ src' = [input |-> arg, check |-> res.value, edit |-> "substitution", at |-> i]
       /\ res' = Returned(verifyISO7064([arg EXCEPT ![i] = c], res.value))
  /\ op' = "verifyISO7064"
  /\ pc' = "done"
  /\ UNCHANGED <<tzOffsetMin, lenientDates>>

\* calculateISO7064Check(swapped): the input with two adjacent, different
\* characters swapped.
CalculateTransposed ==
  /\ pc = "returned"
  /\ op = "calculateISO7064Check"
  /\ res.kind = "ok"
  /\ \E i \in 1..(Len(arg) - 1) :
       LET swapped == [arg EXCEPT ![i] = arg[i + 1], ![i + 1] = arg[i]]
           checkDigit == calculateISO7064Check(swapped)
       IN /\ arg[i] # arg[i + 1]
          /\ arg' = swapped
          /\ src' = [input |-> arg, check |-> res.value, edit |-> "transposition", at |-> i]
          /\ res' = IF checkDigit = "Error" THEN Throw("Error", <<>>)
                    ELSE Returned(<<checkDigit>>)
  /\ op' = "calculateTransposed"
  /\ pc' = "done"
  /\ UNCHANGED <<tzOffsetMin, lenientDates>>

NextIso == CalculateISO7064Check \/ VerifySubstituted \/ CalculateTransposed

SpecIso == InitIso /\ [][NextIso]_vars

(***************************************************************************)
(* Signing (crypto/index.ts).  HMAC-SHA256 is a collision-free function of *)
(* the key bytes and the data bytes: its value is written as the pair.     *)
(***************************************************************************)
SigningKeyLength == 64

HexDigits == <<"0", "1", "2", "3", "4", "5", "6", "7", "8", "9", "a", "b", "c", "d", "e", "f">>

\* The value of each hexadecimal digit, upper-case letters included.
HexValue ==
  [c \in {HexDigits[i] : i \in 1..Len(HexDigits)} \cup {"A", "B", "C", "D", "E", "F"} |->
     IndexOf(HexDigits, LowerOfChar(c)[1])]

\* /^[a-f0-9]{64}$/i
isValidSigningKey(key) ==
  /\ Len(key) = SigningKeyLength
  /\ \A i \in 1..Len(key) : key[i] \in DOMAIN HexValue

\* parseInt(s, 16): the value of the leading hexadecimal digits of s, -1 for
\* NaN (no leading digit).
RECURSIVE ParseHex(_, _)
ParseHex(s, value) ==
  IF s = <<>> THEN value
  ELSE IF Head(s) \notin DOMAIN HexValue THEN value
  ELSE ParseHex(Tail(s), 16 * (IF value = -1 THEN 0 ELSE value) + HexValue[Head(s)])

\* What stands for the Error hexToBytes throws.
InvalidHex == <<-1>>

\* hexToBytes reading one digit of each pair only.
hexToBytes_OneDigit(hex) ==
  IF Len(hex) % 2 # 0 THEN InvalidHex
  ELSE LET bytes == [i \in 1..(Len(hex) \div 2) |-> ParseHex(SubSeq(hex, 2 * i, 2 * i), -1)]
       IN IF \E i \in 1..Len(bytes) : bytes[i] = -1 THEN InvalidHex ELSE bytes

\* The bytes, or InvalidHex where the function throws.
hexToBytes(hex) ==
  IF Len(hex) % 2 # 0 THEN InvalidHex
  ELSE LET bytes == [i \in 1..(Len(hex) \div 2) |-> ParseHex(SubSeq(hex, 2 * i - 1, 2 * i), -1)]
       IN IF \E i \in 1..Len(bytes) : bytes[i] = -1 THEN InvalidHex ELSE bytes

\* The characters U+0020..U+007E in code order (the grave accent by its code point).
AsciiPrintable ==
  <<" ", "!">> \o <<"\"">> \o <<"#", "$", "%", "&", "'", "(", ")", "*", "+", ",", "-", ".", "/", "0", "1", "2", "3", "4", "5", "6", "7", "8", "9", ":", ";", "<", "=", ">", "?">> \o <<"@">>
    \o UpperLetters \o <<"[", "\\", "]", "^", "_", "U+0060">> \o LowerLetters \o <<"{", "|", "}", "~">>

\* The code of each of them.
AsciiCode == [c \in {AsciiPrintable[i] : i \in 1..Len(AsciiPrintable)} |->
                IndexOf(AsciiPrintable, c) + 32]

\* TextEncoder.encode of one character (UTF-8).
Utf8OfChar(c) ==
  IF c \in DOMAIN AsciiCode THEN <<AsciiCode[c]>>
  ELSE IF c = "U+0009" THEN <<9>>
  ELSE IF c = "U+000A" THEN <<10>>
  ELSE IF c = "U+00DF" THEN <<195, 159>>
  ELSE IF c = "U+00E9" THEN <<195, 169>>
  ELSE IF c = "U+0930" THEN <<224, 164, 176>>
  ELSE IF c = "U+093E" THEN <<224, 164, 190>>
  ELSE <<239, 191, 189>>

\* TextEncoder.encode: the bytes of the characters in order.
RECURSIVE TextEncode(_)
TextEncode(s) ==
  IF s = <<>> THEN <<>>
  ELSE IF Len(s) = 1 THEN Utf8OfChar(s[1])
  ELSE LET half == Len(s) \div 2
       IN TextEncode(SubSeq(s, 1, half)) \o TextEncode(SubSeq(s, half + 1, Len(s)))

\* JSON.stringify of one character inside a string.
JsonChar(c) ==
  IF c = "\"" THEN <<"\\", "\"">>
  ELSE IF c = "\\" THEN <<"\\", "\\">>
  ELSE IF c = "U+000A" THEN <<"\\", "n">>
  ELSE IF c = "U+0009" THEN <<"\\", "t">>
  ELSE <<c>>

RECURSIVE JsonEscape(_)
JsonEscape(s) == IF s = <<>> THEN <<>> ELSE JsonChar(Head(s)) \o JsonEscape(Tail(s))

JsonString(s) == <<"\"">> \o JsonEscape(s) \o <<"\"">>

\* JSON.stringify of a string, a non-negative integer or null.
JsonValue(v) ==
  IF v.t = "string" THEN JsonString(v.s)
  ELSE IF v.t = "number" THEN NumToString(v.n)
  ELSE <<"n", "u", "l", "l">>

\* The members of an object literal, each <<key, text>>; a member whose
\* value is undefined has the text <<>> and is left out.
RECURSIVE JsonMembers(_, _)
JsonMembers(members, first) ==
  IF members = <<>> THEN <<>>
  ELSE LET m == Head(members)
       IN IF m[2] = <<>> THEN JsonMembers(Tail(members), first)
          ELSE (IF first THEN <<>> ELSE <<",">>) \o JsonString(m[1]) \o <<":">> \o m[2]
                 \o JsonMembers(Tail(members), FALSE)

JsonObject(members) == <<"{">> \o JsonMembers(members, TRUE) \o <<"}">>

JsonMember(data, key) ==
  LET v == Get(data, key)
  IN <<key, IF v.t = "undefined" THEN <<>> ELSE JsonValue(v)>>

\* What stands for the TypeError thrown on reading a property of undefined or null.
TypeError == <<"TypeError">>

\* canonicalizePayload leaving issuedAt out of the ordered object.
canonicalizePayload_NoIssuedAt(payload) ==
  LET publicAttributes == Get(payload, <<"p", "u", "b", "l", "i", "c", "A", "t", "t", "r", "i", "b", "u", "t", "e", "s">>)
  IN IF publicAttributes.t \in {"undefined", "null"} THEN TypeError
     ELSE JsonObject(<<
            JsonMember(payload, <<"c", "r", "e", "d", "e", "n", "t", "i", "a", "l", "I", "d">>),
            JsonMember(payload, <<"c", "e", "r", "t", "i", "f", "i", "c", "a", "t", "e", "N", "u", "m", "b", "e", "r">>),
            JsonMember(payload, <<"v", "e", "r", "i", "f", "i", "c", "a", "t", "i", "o", "n", "C", "o", "d", "e">>),
            <<<<"p", "u", "b", "l", "i", "c", "A", "t", "t", "r", "i", "b", "u", "t", "e", "s">>,
              JsonObject(<<JsonMember(publicAttributes.o, <<"g", "i", "v", "e", "n", "N", "a", "m", "e">>),
                           JsonMember(publicAttributes.o, <<"f", "a", "m", "i", "l", "y", "N", "a", "m", "e">>),
                           JsonMember(publicAttributes.o, <<"l", "e", "v", "e", "l">>),
                           JsonMember(publicAttributes.o, <<"v", "a", "l", "i", "d", "F", "r", "o", "m">>),
                           JsonMember(publicAttributes.o, <<"v", "a", "l", "i", "d", "U", "n", "t", "i", "l">>)>>)>>,
            JsonMember(payload, <<"i", "s", "s", "u", "e", "r", "C", "o", "d", "e">>)>>)

\* The JSON text, or TypeError where reading payload.publicAttributes.givenName throws.
canonicalizePayload(payload) ==
  LET publicAttributes == Get(payload, <<"p", "u", "b", "l", "i", "c", "A", "t", "t", "r", "i", "b", "u", "t", "e", "s">>)
  IN IF publicAttributes.t \in {"undefined", "null"} THEN TypeError
     ELSE JsonObject(<<
            JsonMember(payload, <<"c", "r", "e", "d", "e", "n", "t", "i", "a", "l", "I", "d">>),
            JsonMember(payload, <<"c", "e", "r", "t", "i", "f", "i", "c", "a", "t", "e", "N", "u", "m", "b", "e", "r">>),
            JsonMember(payload, <<"v", "e", "r", "i", "f", "i", "c", "a", "t", "i", "o", "n", "C", "o", "d", "e">>),
            <<<<"p", "u", "b", "l", "i", "c", "A", "t", "t", "r", "i", "b", "u", "t", "e", "s">>,
              JsonObject(<<JsonMember(publicAttributes.o, <<"g", "i", "v", "e", "n", "N", "a", "m", "e">>),
                           JsonMember(publicAttributes.o, <<"f", "a", "m", "i", "l", "y", "N", "a", "m", "e">>),
                           JsonMember(publicAttributes.o, <<"l", "e", "v", "e", "l">>),
                           JsonMember(publicAttributes.o, <<"v", "a", "l", "i", "d", "F", "r", "o", "m">>),
                           JsonMember(publicAttributes.o, <<"v", "a", "l", "i", "d", "U", "n", "t", "i", "l">>)>>)>>,
            JsonMember(payload, <<"i", "s", "s", "u", "e", "r", "C", "o", "d", "e">>),
            JsonMember(payload, <<"i", "s", "s", "u", "e", "d", "A", "t">>)>>)

\* crypto.subtle.sign('HMAC', key, data)
Hmac(keyBytes, data) == [key |-> keyBytes, data |-> data]

HmacLength == 32

\* The base64 text of the MAC: its length and the bytes it encodes.
bytesToBase64(mac) == [length |-> 4 * ((HmacLength + 2) \div 3), bytes |-> mac]

timingSafeEqual(a, b) ==
  IF a.length # b.length THEN FALSE ELSE a.bytes = b.bytes

\* Returns the signature, or throws Error (key format) or TypeError.
signPayload(payload, signingKey) ==
  IF ~isValidSigningKey(signingKey) THEN Throw("Error", <<>>)
  ELSE LET canonical == canonicalizePayload(payload)
           keyBytes == hexToBytes(signingKey)
       IN IF canonical = TypeError THEN Throw("TypeError", <<>>)
          ELSE IF keyBytes = InvalidHex THEN Throw("Error", <<>>)
          ELSE Returned(bytesToBase64(Hmac(keyBytes, TextEncode(canonical))))

\* Returns {valid, error}.
verifySignature(payload, signature, signingKey) ==
  IF ~isValidSigningKey(signingKey)
    THEN [valid |-> FALSE, error |-> <<"I", "n", "v", "a", "l", "i", "d", " ", "s", "i", "g", "n", "i", "n", "g", " ", "k", "e", "y", " ", "f", "o", "r", "m", "a", "t">>]
  ELSE LET expectedSignature == signPayload(payload, signingKey)
       IN IF expectedSignature.kind # "ok"
            THEN [valid |-> FALSE, error |-> <<"C", "a", "n", "n", "o", "t", " ", "r", "e", "a", "d", " ", "p", "r", "o", "p", "e", "r", "t", "i", "e", "s", " ", "o", "f", " ", "u", "n", "d", "e", "f", "i", "n", "e", "d">>]
          ELSE IF timingSafeEqual(signature, expectedSignature.value)
            THEN [valid |-> TRUE, error |-> <<>>]
          ELSE [valid |-> FALSE, error |-> <<"S", "i", "g", "n", "a", "t", "u", "r", "e", " ", "m", "i", "s", "m", "a", "t", "c", "h">>]

(***************************************************************************)
(* The caller of the signing functions                                     *)
(***************************************************************************)
\* A signing key has KeyBound characters of KeyChars followed by the rest of
\* KeyFiller.
KeyBound == 1

KeyChars == {"7", "a", "A", "f"}

KeyFiller == Repeat("7", SigningKeyLength)

ValidKeys ==
  {p \o SubSeq(KeyFiller, KeyBound + 1, SigningKeyLength) : p \in [1..KeyBound -> KeyChars]}

\* A key one character short, and one with a character that is no hex digit.
InvalidKeys == {Repeat("7", SigningKeyLength - 1), <<"g">> \o Repeat("7", SigningKeyLength - 1)}

SigningKeys == ValidKeys \cup InvalidKeys

BasePayload ==
  <<Entry(<<"c", "r", "e", "d", "e", "n", "t", "i", "a", "l", "I", "d">>, Str(<<"u", "r", "n", ":", "r", "s", "c", "p", ":", "c", "r", "e", "d", "e", "n", "t", "i", "a", "l", ":", "s", "w", "g", ":", "2", "0", "2", "6", ":", "0", "0", "0", "0", "0", "1">>)),
    Entry(<<"c", "e", "r", "t", "i", "f", "i", "c", "a", "t", "e", "N", "u", "m", "b", "e", "r">>, Str(<<"R", "S", "-", "2", "0", "2", "6", "-", "G", "-", "I", "N", "-", "S", "W", "G", "-", "0", "0", "0", "0", "0", "1", "-", "8">>)),
    Entry(<<"v", "e", "r", "i", "f", "i", "c", "a", "t", "i", "o", "n", "C", "o", "d", "e">>, Str(<<"A", "3", "B", "7", "K", "9", "M", "2">>)),
    Entry(<<"p", "u", "b", "l", "i", "c", "A", "t", "t", "r", "i", "b", "u", "t", "e", "s">>, Obj(ValidAttributes)),
    Entry(<<"i", "s", "s", "u", "e", "r", "C", "o", "d", "e">>, Str(<<"S", "W", "G">>)),
    Entry(<<"i", "s", "s", "u", "e", "d", "A", "t">>, Str(<<"2", "0", "2", "6", "-", "0", "1", "-", "1", "5", "T", "1", "0", ":", "0", "0", ":", "0", "0", ".", "0", "0", "0", "Z">>))>>

\* entries with the value under key replaced.
SetField(entries, key, v) ==
  [i \in 1..Len(entries) |-> IF entries[i].k = key THEN Entry(key, v) ELSE entries[i]]

TopLevelFields == {<<"c", "r", "e", "d", "e", "n", "t", "i", "a", "l", "I", "d">>, <<"c", "e", "r", "t", "i", "f", "i", "c", "a", "t", "e", "N", "u", "m", "b", "e", "r">>, <<"v", "e", "r", "i", "f", "i", "c", "a", "t", "i", "o", "n", "C", "o", "d", "e">>,
                   <<"i", "s", "s", "u", "e", "r", "C", "o", "d", "e">>, <<"i", "s", "s", "u", "e", "d", "A", "t">>}

AttributeFields == {ALLOWED_PUBLIC_FIELDS[i] : i \in 1..Len(ALLOWED_PUBLIC_FIELDS)}

\* payload with one field of the canonical form set to v.
WithField(payload, field, v) ==
  IF field \in TopLevelFields THEN SetField(payload, field, v)
  ELSE SetField(payload, <<"p", "u", "b", "l", "i", "c", "A", "t", "t", "r", "i", "b", "u", "t", "e", "s">>,
                Obj(SetField(Get(payload, <<"p", "u", "b", "l", "i", "c", "A", "t", "t", "r", "i", "b", "u", "t", "e", "s">>).o, field, v)))

\* The empty string, text that would read as two JSON
\* members if it were not escaped, and characters JSON and UTF-8 expand.
AlteredValues ==
  {Str(<<>>), Str(<<"R", "\"", ",", "\"", "l", "e", "v", "e", "l", "\"", ":", "\"">>),
   Str(<<"U+00DF", "\\", "U+000A">>)}

\* A second payload, equal to the first in no field.
OtherPayload ==
  <<Entry(<<"c", "r", "e", "d", "e", "n", "t", "i", "a", "l", "I", "d">>, Str(<<"u", "r", "n", ":", "r", "s", "c", "p", ":", "c", "r", "e", "d", "e", "n", "t", "i", "a", "l", ":", "a", "t", "v", ":", "2", "0", "2", "7", ":", "0", "0", "0", "0", "0", "2">>)),
    Entry(<<"c", "e", "r", "t", "i", "f", "i", "c", "a", "t", "e", "N", "u", "m", "b", "e", "r">>, Str(<<"R", "S", "-", "2", "0", "2", "7", "-", "S", "-", "I", "N", "-", "A", "T", "V", "-", "0", "0", "0", "0", "0", "2", "-", "1">>)),
    Entry(<<"v", "e", "r", "i", "f", "i", "c", "a", "t", "i", "o", "n", "C", "o", "d", "e">>, Str(<<"Z", "Z", "Z", "Z", "2", "2", "2", "2">>)),
    Entry(<<"p", "u", "b", "l", "i", "c", "A", "t", "t", "r", "i", "b", "u", "t", "e", "s">>,
          Obj(Fields(Str(<<"A", "s", "h", "a">>), Str(<<"R", "a", "o">>), Str(<<"s", "i", "l", "v", "e", "r">>),
                     Str(<<"2", "0", "2", "7", "-", "0", "2", "-", "0", "1">>), Str(<<"2", "0", "3", "0", "-", "0", "2", "-", "0", "1">>)))),
    Entry(<<"i", "s", "s", "u", "e", "r", "C", "o", "d", "e">>, Str(<<"A", "T", "V">>)),
    Entry(<<"i", "s", "s", "u", "e", "d", "A", "t">>, Str(<<"2", "0", "2", "7", "-", "0", "2", "-", "0", "1", "T", "0", "8", ":", "3", "0", ":", "0", "0", ".", "0", "0", "0", "Z">>))>>

SignedPayloads == {BasePayload, OtherPayload}

\* The payloads presented for verification: the signed ones, each with one
\* field altered, with a field outside the canonical form added, and without
\* publicAttributes.
PresentedPayloads ==
  SignedPayloads
    \cup {WithField(p, f, v) : p \in SignedPayloads, f \in TopLevelFields \cup AttributeFields,
                               v \in AlteredValues}
    \cup {p \o <<Entry(<<"n", "o", "t", "e">>, Str(<<"X">>))>> : p \in SignedPayloads}
    \cup {SelectSeq(p, LAMBDA e : e.k # <<"p", "u", "b", "l", "i", "c", "A", "t", "t", "r", "i", "b", "u", "t", "e", "s">>) : p \in SignedPayloads}

InitSign ==
  /\ pc = "idle"
  /\ op = "none"
  /\ arg = NoInput
  /\ res = NoResult
  /\ src = NoInput
  /\ tzOffsetMin = 0
  /\ lenientDates = FALSE

\* signPayload(payload, signingKey)
SignPayload ==
  /\ pc = "idle"
  /\ \E payload \in SignedPayloads \cup {SelectSeq(BasePayload, LAMBDA e : e.k # <<"p", "u", "b", "l", "i", "c", "A", "t", "t", "r", "i", "b", "u", "t", "e", "s">>)} :
     \E signingKey \in SigningKeys :
       /\ arg' = [payload |-> payload, key |-> signingKey]
       /\ src' = [payload |-> payload, key |-> signingKey]
       /\ res' = signPayload(payload, signingKey)
  /\ op' = "signPayload"
  /\ pc' = "returned"
  /\ UNCHANGED <<tzOffsetMin, lenientDates>>

\* verifySignature(payload, signature, signingKey) with the signature that
\* signPayload returned.
VerifySignature ==
  /\ pc = "returned"
  /\ op = "signPayload"
  /\ res.kind = "ok"
  /\ \E payload \in PresentedPayloads : \E signingKey \in SigningKeys :
       /\ arg' = [payload |-> payload, signature |-> res.value, key |-> signingKey]
       /\ res' = Returned(verifySignature(payload, res.value, signingKey))
  /\ op' = "verifySignature"
  /\ pc' = "done"
  /\ UNCHANGED <<src, tzOffsetMin, lenientDates>>

NextSign == SignPayload \/ VerifySignature

SpecSign == InitSign /\ [][NextSign]_vars

(***************************************************************************)
(* The verification page's utilities (apps/verification-web): its own      *)
(* copies of the checks, and verifyCertificate.  The check-digit functions *)
(* and validateVerificationCode are the core's, inlined.                   *)
(***************************************************************************)
\* /^RS-(\d{4})-([BSG])-([A-Z]{2})-([A-Z]{3})-(\d{6})-([0-9X])$/i on an
\* upper-cased string.
WebCertificatePatternMatches(u) ==
  /\ Len(u) = 25
  /\ SubSeq(u, 1, 3) = <<"R", "S", "-">>
  /\ AllDigits(SubSeq(u, 4, 7))
  /\ u[8] = "-"
  /\ u[9] \in {"B", "S", "G"}
  /\ u[10] = "-"
  /\ AllUpperLetters(SubSeq(u, 11, 12), 2)
  /\ u[13] = "-"
  /\ AllUpperLetters(SubSeq(u, 14, 16), 3)
  /\ u[17] = "-"
  /\ AllDigits(SubSeq(u, 18, 23))
  /\ u[24] = "-"
  /\ (IsDigit(u[25]) \/ u[25] = "X")

\* Returns [kind |-> "ok", value |-> parts] or [kind |-> "null"].
WebParseCertificateNumber(certNumber) ==
  LET u == ToUpperCase(certNumber)
  IN IF ~WebCertificatePatternMatches(u)
       THEN [kind |-> "null", field |-> <<>>, listed |-> <<>>, value |-> NoParts]
     ELSE LET level == CODE_TO_LEVEL(<<u[9]>>)
          IN IF level.t = "undefined"
               THEN [kind |-> "null", field |-> <<>>, listed |-> <<>>, value |-> NoParts]
             ELSE [kind |-> "ok", field |-> <<>>, listed |-> <<>>,
                   value |-> [year |-> ParseInt(SubSeq(u, 4, 7)),
                              level |-> level.s,
                              levelCode |-> <<u[9]>>,
                              country |-> SubSeq(u, 11, 12),
                              issuerCode |-> SubSeq(u, 14, 16),
                              serial |-> ParseInt(SubSeq(u, 18, 23)),
                              checkDigit |-> <<u[25]>>]]

WebValidateCertificateNumber(certNumber) ==
  LET parsed == WebParseCertificateNumber(certNumber)
  IN IF parsed.kind = "null" THEN FALSE
     ELSE LET NotHyphen(c) == c # "-"
              stripped == SelectSeq(ToUpperCase(certNumber), NotHyphen)
              withoutCheck == SubSeq(stripped, 1, Len(stripped) - 1)
          IN verifyISO7064(withoutCheck, parsed.value.checkDigit)

\* The day number of 1970-01-01.
EpochDay == DayOfMonthStart(1970, 1)

\* new Date(value).getTime() for a string or a number of milliseconds.
NewDate(value, tz, lenient) ==
  IF value.t = "string"
    THEN IF IsoDatePatternMatches(value.s) THEN DateTimeValue(value.s, tz, lenient) ELSE NaN
  ELSE IF value.t = "number"
    THEN <<EpochDay + (value.n \div MsPerDay), value.n % MsPerDay>>
  ELSE NaN

\* new Date() with setHours(0, 0, 0, 0): the start of the local day of now.
StartOfToday(now, tz) ==
  LET localDay == now[1] + ((now[2] + tz * MsPerMinute) \div MsPerDay)
      t == 0 - tz * MsPerMinute
  IN <<localDay + (t \div MsPerDay), t % MsPerDay>>

isExpired(validUntil, now, tz, lenient) ==
  LET expiryDate == NewDate(validUntil, tz, lenient)
  IN IF expiryDate = NaN THEN FALSE ELSE TimeLess(expiryDate, StartOfToday(now, tz))

\* A value in a condition.
Truthy(v) ==
  \/ v.t = "string" /\ v.s # <<>>
  \/ v.t = "number" /\ v.n # 0
  \/ v.t = "object"

\* JSON.stringify of an object of strings, numbers and nulls, or of one of those.
JsonOf(v) ==
  IF v.t = "object"
    THEN JsonObject([i \in 1..Len(v.o) |-> <<v.o[i].k, JsonValue(v.o[i].v)>>])
  ELSE JsonValue(v)

\* A string that is the JSON text of v, with the value JSON.parse gives it.
JsonText(v) == [t |-> "string", s |-> JsonOf(v), json |-> v]

\* A string JSON.parse rejects.
NotJson(s) == [t |-> "string", s |-> s, json |-> [Undefined EXCEPT !.t = "SyntaxError"]]

\* The optional argument left out.
NotSupplied == [t |-> "undefined", s |-> <<>>, json |-> Undefined]

\* The parsed object, or Null.
parseQRData(data) ==
  LET parsed == data.json
  IN IF parsed.t \in {"SyntaxError", "null", "undefined"} THEN Null
     ELSE IF Truthy(Get(parsed.o, <<"c", "e", "r", "t">>)) /\ Truthy(Get(parsed.o, <<"c", "o", "d", "e">>)) THEN parsed
     ELSE Null

WebErrors ==
  [certificate |-> <<"I", "n", "v", "a", "l", "i", "d", " ", "c", "e", "r", "t", "i", "f", "i", "c", "a", "t", "e", " ", "n", "u", "m", "b", "e", "r", " ", "f", "o", "r", "m", "a", "t", " ", "o", "r", " ", "c", "h", "e", "c", "k", " ", "d", "i", "g", "i", "t">>,
   parse |-> <<"C", "o", "u", "l", "d", " ", "n", "o", "t", " ", "p", "a", "r", "s", "e", " ", "c", "e", "r", "t", "i", "f", "i", "c", "a", "t", "e", " ", "n", "u", "m", "b", "e", "r">>,
   code |-> <<"I", "n", "v", "a", "l", "i", "d", " ", "v", "e", "r", "i", "f", "i", "c", "a", "t", "i", "o", "n", " ", "c", "o", "d", "e", " ", "f", "o", "r", "m", "a", "t", " ", "o", "r", " ", "c", "h", "e", "c", "k", " ", "d", "i", "g", "i", "t">>,
   expired |-> <<"C", "e", "r", "t", "i", "f", "i", "c", "a", "t", "e", " ", "h", "a", "s", " ", "e", "x", "p", "i", "r", "e", "d">>]

\* verifyCertificate without the expiry in valid.
verifyCertificate_IgnoreExpiry(certificateNumber, verificationCode, qrDataString, now, tz, lenient) ==
  LET qrData == IF Truthy(qrDataString) THEN parseQRData(qrDataString) ELSE Null
      certificateValid == WebValidateCertificateNumber(certificateNumber)
      parsed == WebParseCertificateNumber(certificateNumber)
      codeValid == validateVerificationCode(verificationCode)
      validUntil == Get(qrData.o, <<"v", "a", "l", "i", "d", "U", "n", "t", "i", "l">>)
      expired == IF Truthy(validUntil) THEN isExpired(validUntil, now, tz, lenient) ELSE FALSE
  IN [valid |-> certificateValid /\ codeValid,
      certificateValid |-> certificateValid,
      codeValid |-> codeValid,
      expired |-> expired,
      parsed |-> parsed,
      qrData |-> qrData,
      errors |-> (IF ~certificateValid THEN <<WebErrors.certificate>> ELSE <<>>)
                   \o (IF parsed.kind = "null" /\ certificateValid THEN <<WebErrors.parse>> ELSE <<>>)
                   \o (IF ~codeValid THEN <<WebErrors.code>> ELSE <<>>)
                   \o (IF expired THEN <<WebErrors.expired>> ELSE <<>>)]

\* verifyCertificate(certificateNumber, verificationCode, qrDataString) at
\* the time now in the time zone tz.
verifyCertificate(certificateNumber, verificationCode, qrDataString, now, tz, lenient) ==
  LET qrData == IF Truthy(qrDataString) THEN parseQRData(qrDataString) ELSE Null
      certificateValid == WebValidateCertificateNumber(certificateNumber)
      parsed == WebParseCertificateNumber(certificateNumber)
      codeValid == validateVerificationCode(verificationCode)
      validUntil == Get(qrData.o, <<"v", "a", "l", "i", "d", "U", "n", "t", "i", "l">>)
      expired == IF Truthy(validUntil) THEN isExpired(validUntil, now, tz, lenient) ELSE FALSE
  IN [valid |-> certificateValid /\ codeValid /\ ~expired,
      certificateValid |-> certificateValid,
      codeValid |-> codeValid,
      expired |-> expired,
      parsed |-> parsed,
      qrData |-> qrData,
      errors |-> (IF ~certificateValid THEN <<WebErrors.certificate>> ELSE <<>>)
                   \o (IF parsed.kind = "null" /\ certificateValid THEN <<WebErrors.parse>> ELSE <<>>)
                   \o (IF ~codeValid THEN <<WebErrors.code>> ELSE <<>>)
                   \o (IF expired THEN <<WebErrors.expired>> ELSE <<>>)]

(***************************************************************************)
(* The caller of verifyCertificate                                         *)
(***************************************************************************)
WebCertificateNumbers ==
  {<<"R", "S", "-", "2", "0", "2", "6", "-", "G", "-", "I", "N", "-", "S", "W", "G", "-", "0", "0", "0", "0", "0", "1", "-", "8">>, <<"r", "s", "-", "2", "0", "2", "6", "-", "g", "-", "i", "n", "-", "s", "w", "g", "-", "0", "0", "0", "0", "0", "1", "-", "8">>, <<"R", "S", "-", "2", "0", "2", "6", "-", "G", "-", "I", "N", "-", "S", "W", "G", "-", "0", "0", "0", "0", "0", "1", "-", "7">>,
   <<"R", "S", "-", "2", "0", "2", "6", "-", "G", "-", "I", "N", "-", "S", "W", "G", "-", "0", "0", "0", "0", "0", "1", "-", "A">>, <<"R", "S", "-", "2", "0", "2", "6", "-", "G", "-", "I", "N", "-", "S", "W", "G", "-", "0", "0", "0", "0", "0", "1", "-", "X">>, <<"R", "S", "2", "0", "2", "6", "G", "I", "N", "S", "W", "G", "0", "0", "0", "0", "0", "1", "8">>, <<>>}

WebVerificationCodes == {<<"8", "3", "4", "5", "6", "7", "8", "A">>, <<"8", "3", "4", "5", "-", "6", "7", "8", "a">>, <<"K", "3", "4", "5", "6", "7", "8", "A">>, <<"8", "3", "4", "5", "6", "7", "8", "B">>, <<"8", "3", "4", "5", "6", "7", "8">>, <<>>}

\* The validUntil of a QR payload.
WebValidUntils ==
  {Absent, Null, Str(<<>>), Str(<<"2", "0", "2", "6", "-", "0", "6", "-", "1", "4">>), Str(<<"2", "0", "2", "6", "-", "0", "6", "-", "1", "5">>), Str(<<"2", "0", "2", "6", "-", "0", "6", "-", "1", "6">>),
   Str(<<"2", "0", "2", "6", "-", "0", "6", "-", "1", "5", "T", "0", "1", ":", "0", "0", ":", "0", "0">>), Str(<<"2", "0", "2", "6", "-", "0", "2", "-", "3", "0">>), Str(<<"n", "/", "a">>), Num(0), Num(1)}

QrObject(cert, code, validUntil) ==
  LET all == <<Entry(<<"c", "e", "r", "t">>, cert), Entry(<<"c", "o", "d", "e">>, code), Entry(<<"v", "a", "l", "i", "d", "U", "n", "t", "i", "l">>, validUntil)>>
      Present(e) == e.v.t # "absent"
  IN Obj(SelectSeq(all, Present))

\* The payload printed on another holder's certificate.
OtherCertificateQr ==
  Obj(<<Entry(<<"c", "e", "r", "t">>, Str(<<"R", "S", "-", "2", "0", "2", "5", "-", "P", "-", "I", "N", "-", "Z", "M", "T", "-", "0", "0", "0", "0", "4", "2", "-", "3">>)), Entry(<<"c", "o", "d", "e">>, Str(<<"Z", "M", "T", "9", "-", "4", "2", "Q", "X">>)),
        Entry(<<"n", "a", "m", "e">>, Str(<<"A", "s", "h", "a", " ", "R", "a", "o">>)), Entry(<<"l", "e", "v", "e", "l">>, Str(<<"p", "l", "a", "t", "i", "n", "u", "m">>)),
        Entry(<<"v", "a", "l", "i", "d", "U", "n", "t", "i", "l">>, Str(<<"2", "0", "2", "7", "-", "0", "1", "-", "0", "1">>))>>)

WebQrStrings ==
  {NotSupplied, NotJson(<<>>), NotJson(<<"{", "c", "e", "r", "t">>), JsonText(Null), JsonText(Num(5)),
   JsonText(QrObject(Absent, Str(<<"8", "3", "4", "5", "6", "7", "8", "A">>), Str(<<"2", "0", "2", "6", "-", "0", "6", "-", "1", "4">>))),
   JsonText(QrObject(Str(<<"R", "S", "-", "2", "0", "2", "6", "-", "G", "-", "I", "N", "-", "S", "W", "G", "-", "0", "0", "0", "0", "0", "1", "-", "8">>), Str(<<>>), Str(<<"2", "0", "2", "6", "-", "0", "6", "-", "1", "4">>)))}
    \cup {JsonText(QrObject(Str(<<"R", "S", "-", "2", "0", "2", "6", "-", "G", "-", "I", "N", "-", "S", "W", "G", "-", "0", "0", "0", "0", "0", "1", "-", "8">>), Str(<<"8", "3", "4", "5", "6", "7", "8", "A">>), v)) :
            v \in WebValidUntils}
    \cup {JsonText(OtherCertificateQr)}

\* The times at which the page runs: 2026-06-15 at 12:00 and at 23:30 UTC.
WebClock ==
  {DateTimeValue(<<"2", "0", "2", "6", "-", "0", "6", "-", "1", "5", "T", "1", "2", ":", "0", "0", ":", "0", "0", "Z">>, 0, FALSE), DateTimeValue(<<"2", "0", "2", "6", "-", "0", "6", "-", "1", "5", "T", "2", "3", ":", "3", "0", ":", "0", "0", "Z">>, 0, FALSE)}

InitWeb ==
  /\ pc = "idle"
  /\ op = "none"
  /\ arg = NoInput
  /\ res = NoResult
  /\ src = NoInput
  /\ tzOffsetMin \in TimeZones
  /\ lenientDates \in BOOLEAN

\* verifyCertificate(certificateNumber, verificationCode, qrDataString?)
VerifyCertificate ==
  /\ pc = "idle"
  /\ \E certificateNumber \in WebCertificateNumbers :
     \E verificationCode \in WebVerificationCodes :
     \E qrDataString \in WebQrStrings :
     \E now \in WebClock :
       /\ arg' = [certificateNumber |-> certificateNumber, verificationCode |-> verificationCode,
                  qrDataString |-> qrDataString, now |-> now]
       /\ res' = Returned(verifyCertificate(certificateNumber, verificationCode, qrDataString,
                                            now, tzOffsetMin, lenientDates))
  /\ src' = NoInput
  /\ op' = "verifyCertificate"
  /\ pc' = "returned"
  /\ UNCHANGED <<tzOffsetMin, lenientDates>>

NextWeb == VerifyCertificate

SpecWeb == InitWeb /\ [][NextWeb]_vars

(***************************************************************************)
(* formatCertificateNumber (identifiers/index.ts)                          *)
(***************************************************************************)
formatCertificateNumber(certificateNumber) ==
  LET parsed == parseCertificateNumber(certificateNumber)
  IN IF parsed.kind = "null" THEN ToUpperCase(certificateNumber)
     ELSE LET parts == parsed.value
              paddedSerial == PadStart(NumToString(parts.serial), SerialWidth, "0")
          IN <<"R", "S", "-">> \o NumToString(parts.year) \o Hyphen \o parts.levelCode \o Hyphen
               \o parts.country \o Hyphen \o parts.issuerCode \o Hyphen
               \o paddedSerial \o Hyphen \o parts.checkDigit

(***************************************************************************)
(* Callers that parse, validate and format a certificate number typed in   *)
(***************************************************************************)
TextPrefixes == {<<"R", "S", "-">>, <<"r", "s", "-">>, <<"r", "U+017F", "-">>, <<"X", "S", "-">>}

TextYears == {<<"2", "0", "2", "6">>, <<"0", "0", "2", "6">>, <<"2", "1", "0", "1">>, <<"2", "0", "2", "a">>}

TextLevelCodes == {<<"G">>, <<"s">>, <<"X">>}

TextCountries == {<<"I", "N">>, <<"U+00DF">>, <<"I", "1">>}

TextIssuerCodes == {<<"S", "W", "G">>, <<"s", "w", "g">>, <<"S", "W">>}

TextSerials == {<<"0", "0", "0", "0", "0", "1">>, <<"0", "0", "0", "0", "0", "0">>, <<"0", "0", "0", "0", "1">>}

TextCheckCharacters == {<<"8">>, <<"0">>, <<"X">>, <<"x">>}

CertificateTexts ==
  {p \o y \o Hyphen \o l \o Hyphen \o c \o Hyphen \o i \o Hyphen \o s \o Hyphen \o k :
     p \in TextPrefixes, y \in TextYears, l \in TextLevelCodes, c \in TextCountries,
     i \in TextIssuerCodes, s \in TextSerials, k \in TextCheckCharacters}
    \cup {<<"i", "n", "v", "a", "l", "i", "d">>, <<>>, <<"R", "S", "-", "2", "0", "2", "6", "-", "G", "-", "I", "N", "D", "-", "S", "W", "G", "-", "0", "0", "0", "0", "0", "1", "-", "7">>, <<"r", "s", "-", "2", "0", "2", "6", "-", "g", "-", "i", "n", "-", "s", "w", "g", "-", "0", "0", "0", "0", "0", "1", "-", "7">>,
          <<"R", "S", "-", "2", "0", "2", "6", "-", "G", "-", "I", "N", "-", "S", "W", "G", "-", "0", "0", "0", "0", "0", "1", "-", "8", " ">>, <<"R", "S", "2", "0", "2", "6", "G", "I", "N", "S", "W", "G", "0", "0", "0", "0", "0", "1", "8">>,
          <<"R", "S", "-", "2", "0", "2", "6", "-", "G", "-", "I", "N", "-", "S", "W", "G", "-", "0", "0", "0", "0", "0", "1", "-">>, <<"R", "S", "-", "2", "0", "2", "6", "-", "B", "-", "I", "N", "-", "S", "W", "G", "-", "9", "9", "9", "9", "9", "9", "-", "-">>}

InitText ==
  /\ pc = "idle"
  /\ op = "none"
  /\ arg = NoInput
  /\ res = NoResult
  /\ src = NoInput
  /\ tzOffsetMin = 0
  /\ lenientDates = FALSE

\* parseCertificateNumber(text)
ParseText ==
  /\ pc = "idle"
  /\ \E text \in CertificateTexts :
       /\ arg' = text
       /\ src' = text
       /\ res' = parseCertificateNumber(text)
  /\ op' = "parseText"
  /\ pc' = "returned"
  /\ UNCHANGED <<tzOffsetMin, lenientDates>>

\* validateCertificateNumber(text)
ValidateText ==
  /\ pc = "idle"
  /\ \E text \in CertificateTexts :
       /\ arg' = text
       /\ src' = text
       /\ res' = Returned(validateCertificateNumber(text))
  /\ op' = "validateText"
  /\ pc' = "returned"
  /\ UNCHANGED <<tzOffsetMin, lenientDates>>

\* formatCertificateNumber(text)
FormatText ==
  /\ pc = "idle"
  /\ \E text \in CertificateTexts :
       /\ arg' = text
       /\ src' = text
       /\ res' = Returned(formatCertificateNumber(text))
  /\ op' = "formatText"
  /\ pc' = "returned"
  /\ UNCHANGED <<tzOffsetMin, lenientDates>>

\* parseCertificateNumber on the text formatCertificateNumber returned
ParseFormatted ==
  /\ pc = "returned"
  /\ op = "formatText"
  /\ arg' = res.value
  /\ res' = parseCertificateNumber(res.value)
  /\ op' = "parseFormatted"
  /\ pc' = "done"
  /\ UNCHANGED <<src, tzOffsetMin, lenientDates>>

NextText == ParseText \/ ValidateText \/ FormatText \/ ParseFormatted

SpecText == InitText /\ [][NextText]_vars

(***************************************************************************)
(* getSecureRandomInt (crypto/index.ts), on bytes of ByteBits bits         *)
(***************************************************************************)
\* Bits of one random byte: 8 in the code, scaled down here.
ByteBits == 1

RandomByteCount == 4

ByteValues == 0..(2^ByteBits - 1)

WordBits == RandomByteCount * ByteBits

\* 0xffffffff, the largest unsigned word
WordMax == 2^WordBits - 1

\* (b0 << 24) | (b1 << 16) | (b2 << 8) | b3 as a signed word
SignedWord(bytes) ==
  LET sum == bytes[1] * 2^(3 * ByteBits) + bytes[2] * 2^(2 * ByteBits)
               + bytes[3] * 2^ByteBits + bytes[4]
  IN IF sum >= 2^(WordBits - 1) THEN sum - 2^WordBits ELSE sum

\* value >>> 0
Unsigned(value) == value % 2^WordBits

\* A limit that rejects nothing: the plain value % max.
RejectionLimit_AcceptAll(max) == WordMax + 1

\* limit = 0xffffffff - (0xffffffff % max)
RejectionLimit(max) == WordMax - (WordMax % max)

\* The value of the loop body for one draw of four bytes.
RawSample(bytes) == Unsigned(SignedWord(bytes))

\* The exit test of the do-while loop.
Accepted(max, value) == ~(value >= RejectionLimit(max))

(***************************************************************************)
(* The caller of getSecureRandomInt                                        *)
(***************************************************************************)
RandomMaxima == (0 - 1)..(WordMax + 2)

InitRandom ==
  /\ pc = "idle"
  /\ op = "none"
  /\ arg = NoInput
  /\ res = NoResult
  /\ src = NoInput
  /\ tzOffsetMin = 0
  /\ lenientDates = FALSE

\* getSecureRandomInt(max) up to the loop: the two range checks
GetSecureRandomInt ==
  /\ pc = "idle"
  /\ \E max \in RandomMaxima :
       /\ arg' = [max |-> max]
       /\ IF max <= 0 THEN res' = Throw("Error", <<"m", "a", "x", " ", "m", "u", "s", "t", " ", "b", "e", " ", "p", "o", "s", "i", "t", "i", "v", "e">>) /\ pc' = "returned"
          ELSE IF max > WordMax
            THEN res' = Throw("Error", <<"m", "a", "x", " ", "m", "u", "s", "t", " ", "b", "e", " ", "<", "=", " ", "2", "^", "3", "2", " ", "-", " ", "1">>) /\ pc' = "returned"
          ELSE res' = NoResult /\ pc' = "sampling"
  /\ op' = "getSecureRandomInt"
  /\ UNCHANGED <<src, tzOffsetMin, lenientDates>>

\* One pass of the do-while loop: draw four bytes, leave the loop and return
\* value % max when the value is below the limit.
DrawSample ==
  /\ pc = "sampling"
  /\ \E bytes \in [1..RandomByteCount -> ByteValues] :
       LET value == RawSample(bytes)
       IN /\ src' = [raw |-> value]
          /\ IF Accepted(arg.max, value)
             THEN res' = Returned(value % arg.max) /\ pc' = "returned"
             ELSE res' = NoResult /\ pc' = "sampling"
  /\ UNCHANGED <<op, arg, tzOffsetMin, lenientDates>>

NextRandom == GetSecureRandomInt \/ DrawSample

SpecRandom == InitRandom /\ [][NextRandom]_vars

(***************************************************************************)
(* The caller of the field checks                                          *)
(***************************************************************************)
\* Names on neither list.
OtherNames == {<<"d", "r", "i", "v", "e", "r", "s", "L", "i", "c", "e", "n", "s", "e">>, <<"e", "m", "a", "i", "l", "s">>, <<"m", "a", "i", "l">>, <<"n", "a", "m", "e">>, <<"l", "e", "v", "e", "l", "s">>, <<>>}

ListedNames ==
  {ALLOWED_PUBLIC_FIELDS[i] : i \in 1..Len(ALLOWED_PUBLIC_FIELDS)}
    \cup {FORBIDDEN_FIELDS[i] : i \in 1..Len(FORBIDDEN_FIELDS)}

InitField ==
  /\ pc = "idle"
  /\ op = "none"
  /\ arg = NoInput
  /\ res = NoResult
  /\ src = NoInput
  /\ tzOffsetMin = 0
  /\ lenientDates = FALSE

\* isForbiddenField(field), field being some spelling of name
IsForbiddenField ==
  /\ pc = "idle"
  /\ \E name \in ListedNames \cup OtherNames :
       \E field \in Spellings(name) :
         /\ arg' = field
         /\ src' = [name |-> name]
         /\ res' = Returned(isForbiddenField(field))
  /\ op' = "isForbiddenField"
  /\ pc' = "returned"
  /\ UNCHANGED <<tzOffsetMin, lenientDates>>

\* isAllowedField(field) on the same field
IsAllowedField ==
  /\ pc = "returned"
  /\ op = "isForbiddenField"
  /\ src' = [name |-> src.name, forbidden |-> res.value]
  /\ res' = Returned(isAllowedField(arg))
  /\ op' = "isAllowedField"
  /\ pc' = "done"
  /\ UNCHANGED <<arg, tzOffsetMin, lenientDates>>

NextField == IsForbiddenField \/ IsAllowedField

SpecField == InitField /\ [][NextField]_vars

(***************************************************************************)
(* extractPublicAttributes (protocol/index.ts)                             *)
(***************************************************************************)
\* The own enumerable properties of a value used as an object: the entries
\* of an object, the indexed characters of a string, none for a number.
PropertiesOf(v) ==
  IF v.t = "object" THEN v.o
  ELSE IF v.t = "string" THEN [i \in 1..Len(v.s) |-> Entry(NumToString(i - 1), Str(<<v.s[i]>>))]
  ELSE <<>>

\* extractPublicAttributes handing a flat credential to the gate as it is.
extractPublicAttributes_WholeCredential(credential, tz, lenient) ==
  IF Truthy(Get(credential, <<"p", "u", "b", "l", "i", "c", "A", "t", "t", "r", "i", "b", "u", "t", "e", "s">>))
  THEN enforcePublicAttributesOnly(PropertiesOf(Get(credential, <<"p", "u", "b", "l", "i", "c", "A", "t", "t", "r", "i", "b", "u", "t", "e", "s">>)),
                                   tz, lenient)
  ELSE enforcePublicAttributesOnly(credential, tz, lenient)

extractPublicAttributes(credential, tz, lenient) ==
  IF Truthy(Get(credential, <<"p", "u", "b", "l", "i", "c", "A", "t", "t", "r", "i", "b", "u", "t", "e", "s">>))
  THEN enforcePublicAttributesOnly(PropertiesOf(Get(credential, <<"p", "u", "b", "l", "i", "c", "A", "t", "t", "r", "i", "b", "u", "t", "e", "s">>)),
                                   tz, lenient)
  ELSE enforcePublicAttributesOnly(
         <<Entry(<<"g", "i", "v", "e", "n", "N", "a", "m", "e">>, Get(credential, <<"g", "i", "v", "e", "n", "N", "a", "m", "e">>)),
           Entry(<<"f", "a", "m", "i", "l", "y", "N", "a", "m", "e">>, Get(credential, <<"f", "a", "m", "i", "l", "y", "N", "a", "m", "e">>)),
           Entry(<<"l", "e", "v", "e", "l">>, Get(credential, <<"l", "e", "v", "e", "l">>)),
           Entry(<<"v", "a", "l", "i", "d", "F", "r", "o", "m">>, Get(credential, <<"v", "a", "l", "i", "d", "F", "r", "o", "m">>)),
           Entry(<<"v", "a", "l", "i", "d", "U", "n", "t", "i", "l">>, Get(credential, <<"v", "a", "l", "i", "d", "U", "n", "t", "i", "l">>))>>,
         tz, lenient)

(***************************************************************************)
(* Callers that scan a credential and extract its public attributes        *)
(***************************************************************************)
\* The five fields of a credential: valid, lacking the level, with an
\* unknown level, with validUntil equal to validFrom, or none at all.
CredentialFields ==
  {ValidAttributes,
   Fields(ValidGiven, ValidFamily, Absent, ValidFrom, ValidUntil),
   Fields(ValidGiven, ValidFamily, Str(<<"p", "l", "a", "t", "i", "n", "u", "m">>), ValidFrom, ValidUntil),
   Fields(ValidGiven, ValidFamily, ValidLevel, ValidFrom, ValidFrom),
   <<>>}

\* Values held under publicAttributes or attributes.
ContainerValues ==
  {Absent, Null, Str(<<>>), Str(<<"e", "m", "a", "i", "l">>), Num(0), Obj(<<>>),
   Obj(ValidAttributes),
   Obj(ValidAttributes \o <<Entry(<<"e", "m", "a", "i", "l">>, Str(<<"x", "@", "y", ".", "c", "o", "m">>))>>),
   Obj(<<Entry(<<"S", "S", "N">>, Str(<<"1">>)), Entry(<<"n", "o", "t", "e">>, Null), Entry(<<"s", "c", "o", "r", "e">>, Num(9))>>),
   Obj(ValidAttributes \o <<Entry(<<"a", "t", "t", "r", "i", "b", "u", "t", "e", "s">>, Obj(<<Entry(<<"p", "h", "o", "n", "e">>, Num(5))>>))>>)}

\* Other top-level keys, put before and after the five fields.
TopLevelExtras ==
  {<< <<>>, <<>> >>,
   << <<>>, <<Entry(<<"e", "m", "a", "i", "l">>, Str(<<"x", "@", "y", ".", "c", "o", "m">>))>> >>,
   << <<Entry(<<"P", "h", "o", "n", "e">>, Num(5))>>, <<Entry(<<"E", "M", "A", "I", "L">>, Undefined)>> >>,
   << <<Entry(<<"d", "r", "i", "v", "e", "r", "s", "L", "i", "c", "e", "n", "s", "e">>, Str(<<"K", "A", "0", "1">>))>>, <<>> >>}

Credentials ==
  {LET containers == <<Entry(<<"a", "t", "t", "r", "i", "b", "u", "t", "e", "s">>, a), Entry(<<"p", "u", "b", "l", "i", "c", "A", "t", "t", "r", "i", "b", "u", "t", "e", "s">>, p)>>
       Present(e) == e.v.t # "absent"
   IN x[1] \o f \o SelectSeq(containers, Present) \o x[2] :
     f \in CredentialFields, p \in ContainerValues, a \in ContainerValues,
     x \in TopLevelExtras}

InitExtract ==
  /\ pc = "idle"
  /\ op = "none"
  /\ arg = NoInput
  /\ res = NoResult
  /\ src = NoInput
  /\ tzOffsetMin \in TimeZones
  /\ lenientDates \in BOOLEAN

\* detectForbiddenFields(data)
DetectForbiddenFields ==
  /\ pc = "idle"
  /\ \E data \in Credentials :
       /\ arg' = data
       /\ res' = [Returned(<<>>) EXCEPT !.listed = detectForbiddenFields(data)]
  /\ op' = "detectForbiddenFields"
  /\ pc' = "returned"
  /\ UNCHANGED <<src, tzOffsetMin, lenientDates>>

\* extractPublicAttributes(credential)
ExtractPublicAttributes ==
  /\ pc = "idle"
  /\ \E credential \in Credentials :
       /\ arg' = credential
       /\ res' = extractPublicAttributes(credential, tzOffsetMin, lenientDates)
  /\ op' = "extractPublicAttributes"
  /\ pc' = "returned"
  /\ UNCHANGED <<src, tzOffsetMin, lenientDates>>

\* enforcePublicAttributesOnly(credential) on the credential just extracted from
EnforceSame ==
  /\ pc = "returned"
  /\ op = "extractPublicAttributes"
  /\ src' = res
  /\ res' = enforcePublicAttributesOnly(arg, tzOffsetMin, lenientDates)
  /\ op' = "enforceSame"
  /\ pc' = "done"
  /\ UNCHANGED <<arg, tzOffsetMin, lenientDates>>

NextExtract == DetectForbiddenFields \/ ExtractPublicAttributes \/ EnforceSame

SpecExtract == InitExtract /\ [][NextExtract]_vars

(***************************************************************************)
(* Credential identifiers and dates used by the builder                    *)
(* (identifiers/index.ts, utils/index.ts)                                  *)
(***************************************************************************)
generateCredentialId(issuerCode, year, serial) ==
  LET paddedSerial == PadStart(NumToString(serial), SerialWidth, "0")
  IN <<"u", "r", "n", ":", "r", "s", "c", "p", ":", "c", "r", "e", "d", "e", "n", "t", "i", "a", "l", ":">> \o ToLowerCase(issuerCode) \o <<":">> \o NumToString(year)
       \o <<":">> \o paddedSerial

generateIssuerDid(issuerCode) == <<"d", "i", "d", ":", "r", "s", "c", "p", ":", "i", "s", "s", "u", "e", "r", ":">> \o ToLowerCase(issuerCode)

\* generateAllIdentifiers(options), base being the string getRandomString
\* drew: the error of generateCertificateNumber, or the four identifiers.
generateAllIdentifiers(options, base) ==
  LET certificateNumber == generateCertificateNumber(options)
      verificationCode == generateVerificationCode(base)
  IN IF certificateNumber.kind # "ok" THEN certificateNumber
     ELSE IF verificationCode.kind # "ok" THEN verificationCode
     ELSE Returned([certificateNumber |-> certificateNumber.value,
                    verificationCode |-> verificationCode.value,
                    credentialId |-> generateCredentialId(options.issuerCode, options.year.n,
                                                          options.serial.n),
                    issuerDid |-> generateIssuerDid(options.issuerCode)])

\* date.setFullYear(date.getFullYear() + years) on a YYYY-MM-DD date: the
\* 29th of February of a year that has none becomes the 1st of March.
AddYears(date, years) ==
  LET y == ParseInt(SubSeq(date, 1, 4)) + years
  IN IF SubSeq(date, 5, 10) = <<"-", "0", "2", "-", "2", "9">> /\ ~IsLeapYear(y)
     THEN NumToString(y) \o <<"-", "0", "3", "-", "0", "1">>
     ELSE NumToString(y) \o SubSeq(date, 5, 10)

\* getExpiryDate(level) on the day today
getExpiryDate(level, today) ==
  IF level \in {<<"b", "r", "o", "n", "z", "e">>, <<"s", "i", "l", "v", "e", "r">>} THEN AddYears(today, 1)
  ELSE IF level = <<"g", "o", "l", "d">> THEN AddYears(today, 2)
  ELSE today

(***************************************************************************)
(* RSCPCredentialBuilder (index.ts)                                        *)
(***************************************************************************)
\* new RSCPCredentialBuilder(): every private field undefined.
NewBuilder ==
  [issuerCode |-> Undefined, country |-> Undefined, givenName |-> Undefined,
   familyName |-> Undefined, level |-> Undefined, validFrom |-> Undefined,
   validUntil |-> Undefined, serial |-> Undefined, year |-> Undefined]

\* a ?? b
Nullish(v, default) == IF v.t \in {"undefined", "null"} THEN default ELSE v

\* build() that tests the items for undefined instead of falsiness.
build_UndefinedOnly(b, today, currentYear, base, tz, lenient) ==
  IF b.issuerCode.t = "undefined" THEN Throw("Error", <<"I", "s", "s", "u", "e", "r", " ", "c", "o", "d", "e", " ", "i", "s", " ", "r", "e", "q", "u", "i", "r", "e", "d">>)
  ELSE IF b.country.t = "undefined" THEN Throw("Error", <<"C", "o", "u", "n", "t", "r", "y", " ", "i", "s", " ", "r", "e", "q", "u", "i", "r", "e", "d">>)
  ELSE IF b.givenName.t = "undefined" THEN Throw("Error", <<"G", "i", "v", "e", "n", " ", "n", "a", "m", "e", " ", "i", "s", " ", "r", "e", "q", "u", "i", "r", "e", "d">>)
  ELSE IF b.familyName.t = "undefined" THEN Throw("Error", <<"F", "a", "m", "i", "l", "y", " ", "n", "a", "m", "e", " ", "i", "s", " ", "r", "e", "q", "u", "i", "r", "e", "d">>)
  ELSE IF b.level.t = "undefined" THEN Throw("Error", <<"L", "e", "v", "e", "l", " ", "i", "s", " ", "r", "e", "q", "u", "i", "r", "e", "d">>)
  ELSE IF b.serial.t = "undefined" THEN Throw("Error", <<"S", "e", "r", "i", "a", "l", " ", "n", "u", "m", "b", "e", "r", " ", "i", "s", " ", "r", "e", "q", "u", "i", "r", "e", "d">>)
  ELSE LET year == Nullish(b.year, Num(currentYear))
           validFrom == Nullish(b.validFrom, Str(today))
           validUntil == Nullish(b.validUntil, Str(getExpiryDate(b.level.s, today)))
           publicAttributes ==
             enforcePublicAttributesOnly(
               <<Entry(<<"g", "i", "v", "e", "n", "N", "a", "m", "e">>, b.givenName), Entry(<<"f", "a", "m", "i", "l", "y", "N", "a", "m", "e">>, b.familyName),
                 Entry(<<"l", "e", "v", "e", "l">>, b.level), Entry(<<"v", "a", "l", "i", "d", "F", "r", "o", "m">>, validFrom),
                 Entry(<<"v", "a", "l", "i", "d", "U", "n", "t", "i", "l">>, validUntil)>>, tz, lenient)
           identifiers ==
             generateAllIdentifiers([year |-> year, level |-> b.level.s,
                                     country |-> b.country.s,
                                     issuerCode |-> b.issuerCode.s, serial |-> b.serial],
                                    base)
       IN IF publicAttributes.kind # "ok" THEN publicAttributes
          ELSE IF identifiers.kind # "ok" THEN identifiers
          ELSE Returned([publicAttributes |-> publicAttributes.value,
                         identifiers |-> identifiers.value,
                         issuerCode |-> b.issuerCode.s])

\* build() on the builder b; today and currentYear are what new Date()
\* gives, base the string getRandomString drew.
build(b, today, currentYear, base, tz, lenient) ==
  IF ~Truthy(b.issuerCode) THEN Throw("Error", <<"I", "s", "s", "u", "e", "r", " ", "c", "o", "d", "e", " ", "i", "s", " ", "r", "e", "q", "u", "i", "r", "e", "d">>)
  ELSE IF ~Truthy(b.country) THEN Throw("Error", <<"C", "o", "u", "n", "t", "r", "y", " ", "i", "s", " ", "r", "e", "q", "u", "i", "r", "e", "d">>)
  ELSE IF ~Truthy(b.givenName) THEN Throw("Error", <<"G", "i", "v", "e", "n", " ", "n", "a", "m", "e", " ", "i", "s", " ", "r", "e", "q", "u", "i", "r", "e", "d">>)
  ELSE IF ~Truthy(b.familyName) THEN Throw("Error", <<"F", "a", "m", "i", "l", "y", " ", "n", "a", "m", "e", " ", "i", "s", " ", "r", "e", "q", "u", "i", "r", "e", "d">>)
  ELSE IF ~Truthy(b.level) THEN Throw("Error", <<"L", "e", "v", "e", "l", " ", "i", "s", " ", "r", "e", "q", "u", "i", "r", "e", "d">>)
  ELSE IF ~Truthy(b.serial) THEN Throw("Error", <<"S", "e", "r", "i", "a", "l", " ", "n", "u", "m", "b", "e", "r", " ", "i", "s", " ", "r", "e", "q", "u", "i", "r", "e", "d">>)
  ELSE LET year == Nullish(b.year, Num(currentYear))
           validFrom == Nullish(b.validFrom, Str(today))
           validUntil == Nullish(b.validUntil, Str(getExpiryDate(b.level.s, today)))
           publicAttributes ==
             enforcePublicAttributesOnly(
               <<Entry(<<"g", "i", "v", "e", "n", "N", "a", "m", "e">>, b.givenName), Entry(<<"f", "a", "m", "i", "l", "y", "N", "a", "m", "e">>, b.familyName),
                 Entry(<<"l", "e", "v", "e", "l">>, b.level), Entry(<<"v", "a", "l", "i", "d", "F", "r", "o", "m">>, validFrom),
                 Entry(<<"v", "a", "l", "i", "d", "U", "n", "t", "i", "l">>, validUntil)>>, tz, lenient)
           identifiers ==
             generateAllIdentifiers([year |-> year, level |-> b.level.s,
                                     country |-> b.country.s,
                                     issuerCode |-> b.issuerCode.s, serial |-> b.serial],
                                    base)
       IN IF publicAttributes.kind # "ok" THEN publicAttributes
          ELSE IF identifiers.kind # "ok" THEN identifiers
          ELSE Returned([publicAttributes |-> publicAttributes.value,
                         identifiers |-> identifiers.value,
                         issuerCode |-> b.issuerCode.s])

(***************************************************************************)
(* The caller of the credential builder                                    *)
(***************************************************************************)
\* What new Date() gives while the builder is used: the UTC day and the
\* local year (a day early in January may still be in the old year locally).
BuilderClocks ==
  {[today |-> <<"2", "0", "2", "6", "-", "0", "1", "-", "1", "5">>, currentYear |-> 2026],
   [today |-> <<"2", "0", "2", "8", "-", "0", "2", "-", "2", "9">>, currentYear |-> 2028],
   [today |-> <<"2", "0", "2", "0", "-", "0", "1", "-", "0", "1">>, currentYear |-> 2019]}

IssuerArguments == {<<<<"s", "w", "g">>, <<"i", "n">>>>, <<<<>>, <<"I", "N">>>>, <<<<"S", "W", "G">>, <<>>>>, <<<<"S", "W">>, <<"I", "N">>>>}

HolderArguments == {<<<<"R">>, <<"K">>>>, <<<<>>, <<"K">>>>, <<<<"R">>, <<>>>>, <<<<"<", "b", ">">>, <<"K">>>>}

LevelArguments == {<<"g", "o", "l", "d">>, <<"s", "i", "l", "v", "e", "r">>, <<"p", "l", "a", "t", "i", "n", "u", "m">>, <<>>}

ValidForYears == {0, 1}

ValidDatesArguments == {<<<<"2", "0", "2", "6", "-", "0", "1", "-", "0", "1">>, <<"2", "0", "2", "7", "-", "0", "1", "-", "0", "1">>>>, <<<<"2", "0", "2", "6", "-", "0", "1", "-", "0", "1">>, <<>>>>}

SerialArguments == {Num(1), Num(0), Num(MaxSerial + 1)}

YearArguments == {Num(2026), Num(MinYear - 1)}

\* The string getRandomString draws for the verification code.
BuilderBases == {<<"A", "3", "B", "7", "K", "9", "M">>}

\* The last arguments of the setters called so far (none: the empty tuple).
NoCalls == [issuer |-> <<>>, holder |-> <<>>, level |-> <<>>, serial |-> <<>>]

\* RSCP.credential()
InitBuilder ==
  /\ pc = "idle"
  /\ op = "credential"
  /\ arg = NoInput
  /\ res = NoResult
  /\ \E clock \in BuilderClocks :
       src = [builder |-> NewBuilder, calls |-> NoCalls, clock |-> clock]
  /\ tzOffsetMin = 0
  /\ lenientDates = FALSE

\* issuer(code, country)
Issuer ==
  /\ pc = "idle" /\ op = "credential"
  /\ \E a \in IssuerArguments :
       src' = [src EXCEPT !.builder.issuerCode = Str(ToUpperCase(a[1])),
                          !.builder.country = Str(ToUpperCase(a[2])),
                          !.calls.issuer = a]
  /\ UNCHANGED <<pc, op, arg, res, tzOffsetMin, lenientDates>>

\* holder(givenName, familyName)
Holder ==
  /\ pc = "idle" /\ op = "credential"
  /\ \E a \in HolderArguments :
       src' = [src EXCEPT !.builder.givenName = Str(a[1]),
                          !.builder.familyName = Str(a[2]),
                          !.calls.holder = a]
  /\ UNCHANGED <<pc, op, arg, res, tzOffsetMin, lenientDates>>

\* level(level)
Level ==
  /\ pc = "idle" /\ op = "credential"
  /\ \E level \in LevelArguments :
       src' = [src EXCEPT !.builder.level = Str(level), !.calls.level = <<level>>]
  /\ UNCHANGED <<pc, op, arg, res, tzOffsetMin, lenientDates>>

\* validFor({years})
ValidFor ==
  /\ pc = "idle" /\ op = "credential"
  /\ \E years \in ValidForYears :
       src' = [src EXCEPT !.builder.validFrom = Str(src.clock.today),
                          !.builder.validUntil = Str(AddYears(src.clock.today, years))]
  /\ UNCHANGED <<pc, op, arg, res, tzOffsetMin, lenientDates>>

\* validDates(from, until)
ValidDates ==
  /\ pc = "idle" /\ op = "credential"
  /\ \E a \in ValidDatesArguments :
       src' = [src EXCEPT !.builder.validFrom = Str(a[1]), !.builder.validUntil = Str(a[2])]
  /\ UNCHANGED <<pc, op, arg, res, tzOffsetMin, lenientDates>>

\* serial(serial)
Serial ==
  /\ pc = "idle" /\ op = "credential"
  /\ \E serial \in SerialArguments :
       src' = [src EXCEPT !.builder.serial = serial, !.calls.serial = <<serial>>]
  /\ UNCHANGED <<pc, op, arg, res, tzOffsetMin, lenientDates>>

\* year(year)
Year ==
  /\ pc = "idle" /\ op = "credential"
  /\ \E year \in YearArguments :
       src' = [src EXCEPT !.builder.year = year]
  /\ UNCHANGED <<pc, op, arg, res, tzOffsetMin, lenientDates>>

\* build()
Build ==
  /\ pc = "idle" /\ op = "credential"
  /\ \E base \in BuilderBases :
       res' = build(src.builder, src.clock.today, src.clock.currentYear, base,
                    tzOffsetMin, lenientDates)
  /\ op' = "build"
  /\ pc' = "returned"
  /\ UNCHANGED <<arg, src, tzOffsetMin, lenientDates>>

NextBuilder ==
  Issuer \/ Holder \/ Level \/ ValidFor \/ ValidDates \/ Serial \/ Year \/ Build

SpecBuilder == InitBuilder /\ [][NextBuilder]_vars

(***************************************************************************)
(* All the calls together                                                  *)
(***************************************************************************)
Init == InitWeb \/ InitBuilder

Next ==
  \/ NextGate
  \/ NextCert
  \/ NextCode
  \/ NextCodeError
  \/ NextIso
  \/ NextSign
  \/ NextWeb
  \/ NextText
  \/ NextRandom
  \/ NextField
  \/ NextExtract
  \/ NextBuilder

Spec == Init /\ [][Next]_vars

(***************************************************************************)
(* Claims about the privacy gate                                           *)
(***************************************************************************)
\* Two names that differ at most in the case of their ASCII letters.
SameNameIgnoringCase(a, b) ==
  /\ Len(a) = Len(b)
  /\ \A i \in 1..Len(a) :
       \/ a[i] = b[i]
       \/ a[i] \in DOMAIN UpperOfLetter /\ UpperOfLetter[a[i]] = b[i]
       \/ a[i] \in DOMAIN LowerOfLetter /\ LowerOfLetter[a[i]] = b[i]

IsForbiddenName(k) ==
  \E i \in 1..Len(FORBIDDEN_FIELDS) : SameNameIgnoringCase(k, FORBIDDEN_FIELDS[i])

\* The positions of the forbidden keys of an object.
ForbiddenPositions(entries) == {i \in 1..Len(entries) : IsForbiddenName(entries[i].k)}

\* The keys of the object held under a container key; none when it holds no object.
ContainerEntries(data, container) ==
  IF Get(data, container).t = "object" THEN Get(data, container).o ELSE <<>>

HasForbiddenField(data) ==
  \/ ForbiddenPositions(data) # {}
  \/ ForbiddenPositions(ContainerEntries(data, <<"p", "u", "b", "l", "i", "c", "A", "t", "t", "r", "i", "b", "u", "t", "e", "s">>)) # {}
  \/ ForbiddenPositions(ContainerEntries(data, <<"a", "t", "t", "r", "i", "b", "u", "t", "e", "s">>)) # {}

FirstForbiddenKey(entries) ==
  entries[CHOOSE i \in ForbiddenPositions(entries) :
            \A j \in ForbiddenPositions(entries) : i <= j].k

\* The first offending field: top-level keys first, then publicAttributes, then attributes.
FirstOffender(data) ==
  IF ForbiddenPositions(data) # {} THEN FirstForbiddenKey(data)
  ELSE IF ForbiddenPositions(ContainerEntries(data, <<"p", "u", "b", "l", "i", "c", "A", "t", "t", "r", "i", "b", "u", "t", "e", "s">>)) # {}
    THEN <<"p", "u", "b", "l", "i", "c", "A", "t", "t", "r", "i", "b", "u", "t", "e", "s", ".">> \o FirstForbiddenKey(ContainerEntries(data, <<"p", "u", "b", "l", "i", "c", "A", "t", "t", "r", "i", "b", "u", "t", "e", "s">>))
  ELSE <<"a", "t", "t", "r", "i", "b", "u", "t", "e", "s", ".">> \o FirstForbiddenKey(ContainerEntries(data, <<"a", "t", "t", "r", "i", "b", "u", "t", "e", "s">>))

Enforced == op = "enforcePublicAttributesOnly"

\* The scenario of the specification: equal dates and an email.
EmailScenario ==
  <<Entry(<<"g", "i", "v", "e", "n", "N", "a", "m", "e">>, Str(<<"R">>)), Entry(<<"f", "a", "m", "i", "l", "y", "N", "a", "m", "e">>, Str(<<"K">>)),
    Entry(<<"l", "e", "v", "e", "l">>, Str(<<"g", "o", "l", "d">>)), Entry(<<"v", "a", "l", "i", "d", "F", "r", "o", "m">>, Str(<<"2", "0", "2", "6", "-", "0", "1", "-", "0", "1">>)),
    Entry(<<"v", "a", "l", "i", "d", "U", "n", "t", "i", "l">>, Str(<<"2", "0", "2", "6", "-", "0", "1", "-", "0", "1">>)), Entry(<<"e", "m", "a", "i", "l">>, Str(<<"x", "@", "y", ".", "c", "o", "m">>))>>

\* C1: every input that contains a forbidden field is rejected with
\* ProtocolViolationError naming the first offending field, whatever else is
\* wrong with it (missing fields, invalid formats, validUntil not after
\* validFrom).
C1_ForbiddenFirst ==
  (Enforced /\ HasForbiddenField(arg)) =>
    (res.kind = "ProtocolViolationError" /\ res.field = FirstOffender(arg))

C1_Witness ==
  /\ Enforced
  /\ arg = EmailScenario
  /\ res.kind = "ProtocolViolationError"
  /\ res.field = <<"e", "m", "a", "i", "l">>

\* C2: valid attributes plus one key that is a forbidden name in any
\* upper/lower-case spelling, with any value, are rejected with
\* ProtocolViolationError.
C2_EverySpellingRejected ==
  (/\ Enforced
   /\ Len(arg) = 6
   /\ SubSeq(arg, 1, 5) = ValidAttributes
   /\ IsForbiddenName(arg[6].k))
    => res.kind = "ProtocolViolationError"

C2_Witness ==
  /\ Enforced
  /\ Len(arg) = 6
  /\ SubSeq(arg, 1, 5) = ValidAttributes
  /\ arg[6].k = <<"s", "S", "n">>
  /\ res.kind = "ProtocolViolationError"

\* C3: whenever enforcePublicAttributesOnly returns, the result has exactly
\* the keys givenName, familyName, level, validFrom, validUntil, each with the
\* input's value for that key, and no other key of the input.
C3_ResultHasFiveFields ==
  (Enforced /\ res.kind = "ok") =>
    /\ ObjectKeys(res.value) = ALLOWED_PUBLIC_FIELDS
    /\ \A i \in 1..Len(res.value) : res.value[i].v = Get(arg, res.value[i].k)

C3_Witness ==
  /\ Enforced
  /\ res.kind = "ok"
  /\ Get(arg, <<"d", "r", "i", "v", "e", "r", "s", "L", "i", "c", "e", "n", "s", "e">>) = Str(<<"K", "A", "0", "1">>)
  /\ ObjectKeys(res.value) = ALLOWED_PUBLIC_FIELDS

IsPermittedEntry(e) ==
  e.k \in {ALLOWED_PUBLIC_FIELDS[i] : i \in 1..Len(ALLOWED_PUBLIC_FIELDS)}

HasOtherKey(data) == \E i \in 1..Len(data) : ~IsPermittedEntry(data[i])

\* C4 as claimed: every input with a top-level key outside the five permitted
\* fields is rejected, forbidden or not.
C4_OtherKeysRejected == (Enforced /\ HasOtherKey(arg)) => res.kind # "ok"

\* C4 as amended: an input with a forbidden key is rejected; a top-level key
\* that is neither permitted nor forbidden is no reason for rejection: the
\* outcome is that of the input without such keys.
C4_OnlyForbiddenKeysRejected ==
  Enforced =>
    /\ HasForbiddenField(arg) => res.kind = "ProtocolViolationError"
    /\ ~HasForbiddenField(arg) =>
         res = enforcePublicAttributesOnly(SelectSeq(arg, IsPermittedEntry),
                                           tzOffsetMin, lenientDates)

C4_Witness ==
  /\ Enforced
  /\ HasOtherKey(arg)
  /\ Get(arg, <<"d", "r", "i", "v", "e", "r", "s", "L", "i", "c", "e", "n", "s", "e">>).t = "string"
  /\ res.kind = "ok"
  /\ Get(res.value, <<"d", "r", "i", "v", "e", "r", "s", "L", "i", "c", "e", "n", "s", "e">>).t = "undefined"

\* C5: applying enforcePublicAttributesOnly to its own result succeeds and
\* returns an equal structure.
C5_Idempotent == op = "enforceAgain" => (res.kind = "ok" /\ res.value = arg)

C5_Witness ==
  /\ op = "enforceAgain"
  /\ Len(src) > Len(arg)
  /\ res.kind = "ok"
  /\ res.value = arg

WellFormedFields(data) ==
  /\ validateName(Get(data, <<"g", "i", "v", "e", "n", "N", "a", "m", "e">>))
  /\ validateName(Get(data, <<"f", "a", "m", "i", "l", "y", "N", "a", "m", "e">>))
  /\ validateLevel(Get(data, <<"l", "e", "v", "e", "l">>))
  /\ validateISODate(Get(data, <<"v", "a", "l", "i", "d", "F", "r", "o", "m">>), tzOffsetMin, lenientDates)
  /\ validateISODate(Get(data, <<"v", "a", "l", "i", "d", "U", "n", "t", "i", "l">>), tzOffsetMin, lenientDates)

\* validUntil denotes an instant equal to or earlier than validFrom.
NotAfter(data) ==
  TimeLessEq(DateTimeValue(Get(data, <<"v", "a", "l", "i", "d", "U", "n", "t", "i", "l">>).s, tzOffsetMin, lenientDates),
             DateTimeValue(Get(data, <<"v", "a", "l", "i", "d", "F", "r", "o", "m">>).s, tzOffsetMin, lenientDates))

\* C6: with no forbidden field and five well-formed fields, the call throws
\* AttributeValidationError for validUntil when validUntil is equal to or
\* earlier than validFrom, and succeeds only when it is strictly later.
C6_UntilStrictlyAfterFrom ==
  (Enforced /\ ~HasForbiddenField(arg) /\ WellFormedFields(arg)) =>
    IF NotAfter(arg)
    THEN res.kind = "AttributeValidationError" /\ res.field = <<"v", "a", "l", "i", "d", "U", "n", "t", "i", "l">>
    ELSE res.kind = "ok"

C6_Witness ==
  /\ Enforced
  /\ ~HasForbiddenField(arg)
  /\ WellFormedFields(arg)
  /\ Get(arg, <<"v", "a", "l", "i", "d", "F", "r", "o", "m">>) = Get(arg, <<"v", "a", "l", "i", "d", "U", "n", "t", "i", "l">>)
  /\ res.kind = "AttributeValidationError"
  /\ res.field = <<"v", "a", "l", "i", "d", "U", "n", "t", "i", "l">>

MissingPositions(data) ==
  {i \in 1..Len(ALLOWED_PUBLIC_FIELDS) :
     Get(data, ALLOWED_PUBLIC_FIELDS[i]).t \in {"undefined", "null"}}

\* C7: with no forbidden field and a required field undefined or null, the
\* call throws MissingAttributeError naming the first absent field in the
\* order givenName, familyName, level, validFrom, validUntil, even when a
\* present field has an invalid format.
C7_FirstMissingNamed ==
  (Enforced /\ ~HasForbiddenField(arg) /\ MissingPositions(arg) # {}) =>
    /\ res.kind = "MissingAttributeError"
    /\ res.field = ALLOWED_PUBLIC_FIELDS[CHOOSE i \in MissingPositions(arg) :
                                           \A j \in MissingPositions(arg) : i <= j]

C7_Witness ==
  /\ Enforced
  /\ Get(arg, <<"g", "i", "v", "e", "n", "N", "a", "m", "e">>) = Str(<<>>)
  /\ Get(arg, <<"f", "a", "m", "i", "l", "y", "N", "a", "m", "e">>) = Null
  /\ Get(arg, <<"l", "e", "v", "e", "l">>) = Undefined
  /\ ~HasForbiddenField(arg)
  /\ res.kind = "MissingAttributeError"
  /\ res.field = <<"f", "a", "m", "i", "l", "y", "N", "a", "m", "e">>

(***************************************************************************)
(* Claims about certificate numbers                                        *)
(***************************************************************************)
\* C8: for every valid input (integer year 2020..2100, level bronze, silver
\* or gold, 2-letter country, 3-letter issuer code, integer serial
\* 1..999999) generateCertificateNumber returns a number and
\* validateCertificateNumber of that number is true.
C8_GeneratedValidates ==
  /\ (op = "generateCertificateNumber" /\ ValidOptions(arg)) => res.kind = "ok"
  /\ (op = "validateCertificateNumber" /\ ValidOptions(src)) => res.value = TRUE

C8_Witness ==
  /\ op = "validateCertificateNumber"
  /\ ValidOptions(src)
  /\ src.country = <<"b", "A">>
  /\ src.serial.n = 10
  /\ res.value = TRUE

\* C9: generateCertificateNumber({year: 2026, level: 'gold', country: 'IN',
\* issuerCode: 'SWG', serial: 1}) returns exactly 'RS-2026-G-IN-SWG-000001-7'.
C9_ReadmeExample ==
  (/\ op = "generateCertificateNumber"
   /\ arg = [year |-> Num(2026), level |-> <<"g", "o", "l", "d">>, country |-> <<"I", "N">>,
             issuerCode |-> <<"S", "W", "G">>, serial |-> Num(1)])
    => (res.kind = "ok" /\ res.value = <<"R", "S", "-", "2", "0", "2", "6", "-", "G", "-", "I", "N", "-", "S", "W", "G", "-", "0", "0", "0", "0", "0", "1", "-", "7">>)

\* C10: for every valid input, parsing the generated number returns non-null
\* parts whose year, level, upper-cased country, upper-cased issuer code and
\* serial are the values supplied.
C10_ParseInvertsGenerate ==
  (op = "parseCertificateNumber" /\ ValidOptions(src)) =>
    /\ res.kind = "ok"
    /\ res.value.year = src.year.n
    /\ res.value.level = src.level
    /\ res.value.country = ToUpperCase(src.country)
    /\ res.value.issuerCode = ToUpperCase(src.issuerCode)
    /\ res.value.serial = src.serial.n

C10_Witness ==
  /\ op = "parseCertificateNumber"
  /\ ValidOptions(src)
  /\ src.country = <<"i", "n">>
  /\ src.issuerCode = <<"Z", "m", "t">>
  /\ src.serial.n = 10
  /\ res.kind = "ok"
  /\ res.value.country = <<"I", "N">>
  /\ res.value.issuerCode = <<"Z", "M", "T">>
  /\ res.value.serial = 10

(***************************************************************************)
(* Claims about verification codes                                         *)
(***************************************************************************)
\* C11: for every 7-character base drawn from the verification-code
\* alphabet, generateVerificationCode returns base + check character, 8
\* characters long, and validateVerificationCode accepts it both as stored
\* and in the display form with the hyphen.
C11_GeneratedCodeValidates ==
  /\ op = "generateVerificationCode" =>
       /\ res.kind = "ok"
       /\ Len(res.value) = 8
       /\ SubSeq(res.value, 1, 7) = arg
  /\ op = "validateVerificationCode" => res.value = TRUE

C11_Witness ==
  /\ op = "validateVerificationCode"
  /\ Len(arg) = 9
  /\ arg[5] = "-"
  /\ SubSeq(arg, 1, 4) = <<"M", "3", "B", "7">>
  /\ res.value = TRUE

\* C12: replacing the character at any one position of a valid 8-character
\* verification code by a different character gives a code that
\* validateVerificationCode rejects.
C12_SubstitutionRejected ==
  (op = "validateVerificationCode" /\ src.edit = "substitution") => res.value = FALSE

\* C13: swapping two adjacent, different characters of a valid 8-character
\* verification code gives a code that validateVerificationCode rejects.
C13_TranspositionRejected ==
  (op = "validateVerificationCode" /\ src.edit = "transposition") => res.value = FALSE

(***************************************************************************)
(* Claims about the MOD 11,10 check character                              *)
(***************************************************************************)
\* A string over the 36 characters 0-9A-Z.
OverIsoAlphabet(s) == \A i \in 1..Len(s) : s[i] \in IsoAlphabetChars

\* C14: for every string over 0-9A-Z, replacing the character at one
\* position by a different character of the alphabet changes the check
\* character: verifyISO7064 of the altered string against the original
\* check character is false.
C14_SubstitutionDetected ==
  (op = "verifyISO7064" /\ OverIsoAlphabet(src.input)) => res.value = FALSE

\* C15: for every string over 0-9A-Z, digit-only strings included, swapping
\* two adjacent, different characters changes the check character
\* calculateISO7064Check returns.
C15_TranspositionDetected ==
  (op = "calculateTransposed" /\ OverIsoAlphabet(src.input)) =>
    (res.kind = "ok" /\ res.value # src.check)

\* C16: the verification-code alphabet has exactly 32 characters, none of
\* them one of the look-alikes I, O, 0, 1, L.
C16_AlphabetSize ==
  op = "getVerificationCodeAlphabet" =>
    /\ Len(res.value) = 32
    /\ Cardinality({res.value[i] : i \in 1..Len(res.value)}) = 32
    /\ \A i \in 1..Len(res.value) : res.value[i] \notin {"I", "O", "0", "1", "L"}

\* C19: for every 8-character input x, cleanCode(formatVerificationCode(x))
\* equals cleanCode(x), and formatVerificationCode of an already formatted
\* code returns it unchanged.
C19_FormatCleanRoundTrip ==
  /\ op = "cleanCode" => res.value = cleanCode(src)
  /\ op = "formatFormatted" => res.value = arg

C19_Witness ==
  /\ op = "cleanCode"
  /\ src = <<"b", "3", "B", "7", "K", "9", "M", "2">>
  /\ arg = <<"B", "3", "B", "7", "-", "K", "9", "M", "2">>
  /\ res.value = <<"B", "3", "B", "7", "K", "9", "M", "2">>

(***************************************************************************)
(* Claims about signatures                                                 *)
(***************************************************************************)
\* The value of a field of the canonical form of a payload.
CanonicalValue(payload, field) ==
  IF field \in TopLevelFields THEN Get(payload, field)
  ELSE Get(Get(payload, <<"p", "u", "b", "l", "i", "c", "A", "t", "t", "r", "i", "b", "u", "t", "e", "s">>).o, field)

\* The canonical fields in which two payloads differ.
DifferingFields(p, q) ==
  {f \in TopLevelFields \cup AttributeFields : CanonicalValue(p, f) # CanonicalValue(q, f)}

\* A verification of a signature with both keys of valid shape.
VerifiedWithValidKeys ==
  /\ op = "verifySignature"
  /\ Len(src.key) = 64
  /\ Len(arg.key) = 64
  /\ \A i \in 1..64 : src.key[i] \in DOMAIN HexValue /\ arg.key[i] \in DOMAIN HexValue

\* C17: with one valid-shaped key, verifySignature of the payload that was
\* signed is valid, and verifySignature of a payload that differs from it in
\* the value of one canonical field is not.
C17_SignatureBindsPayload ==
  (VerifiedWithValidKeys /\ arg.key = src.key) =>
    /\ arg.payload = src.payload => res.value.valid = TRUE
    /\ Cardinality(DifferingFields(arg.payload, src.payload)) = 1 => res.value.valid = FALSE

C17_Witness ==
  /\ VerifiedWithValidKeys
  /\ arg.key = src.key
  /\ src.payload = BasePayload
  /\ DifferingFields(arg.payload, src.payload) = {<<"g", "i", "v", "e", "n", "N", "a", "m", "e">>}
  /\ CanonicalValue(arg.payload, <<"g", "i", "v", "e", "n", "N", "a", "m", "e">>) =
       Str(<<"R", "\"", ",", "\"", "l", "e", "v", "e", "l", "\"", ":", "\"">>)
  /\ res.value.valid = FALSE

\* C18 as stated: verifySignature with a valid-shaped key string different
\* from the one that signed is never valid.
C18_OtherKeyStringRejected ==
  (VerifiedWithValidKeys /\ arg.payload = src.payload /\ arg.key # src.key) =>
    res.value.valid = FALSE

\* C18 as amended: verifySignature with a valid-shaped key that differs from
\* the signing key in more than the case of its hex letters is never
\* valid; with a key that differs in the case of letters only it is valid.
C18_OtherKeyBytesRejected ==
  (VerifiedWithValidKeys /\ arg.payload = src.payload) =>
    (res.value.valid <=> SameNameIgnoringCase(arg.key, src.key))

C18_Witness ==
  /\ VerifiedWithValidKeys
  /\ arg.payload = src.payload
  /\ src.key[1] = "a"
  /\ arg.key[1] = "f"
  /\ res.value.valid = FALSE

(***************************************************************************)
(* Claims about verifyCertificate                                          *)
(***************************************************************************)
\* The QR string is the JSON text of an object that has a validUntil.
QrHasValidUntil(qrDataString) ==
  /\ qrDataString.json.t = "object"
  /\ Get(qrDataString.json.o, <<"v", "a", "l", "i", "d", "U", "n", "t", "i", "l">>).t \notin {"undefined", "null"}

\* C20: in every result of verifyCertificate, valid is true exactly when
\* certificateValid and codeValid are true and expired is false; expired is
\* true only when a QR payload with a validUntil was supplied; errors is
\* empty exactly when valid is true.
C20_VerifyComposition ==
  op = "verifyCertificate" =>
    /\ res.value.valid <=>
         (res.value.certificateValid /\ res.value.codeValid /\ ~res.value.expired)
    /\ res.value.expired => QrHasValidUntil(arg.qrDataString)
    /\ (res.value.errors = <<>>) <=> res.value.valid

C20_Witness ==
  /\ op = "verifyCertificate"
  /\ tzOffsetMin = -300
  /\ arg.certificateNumber = <<"r", "s", "-", "2", "0", "2", "6", "-", "g", "-", "i", "n", "-", "s", "w", "g", "-", "0", "0", "0", "0", "0", "1", "-", "8">>
  /\ arg.verificationCode = <<"8", "3", "4", "5", "-", "6", "7", "8", "a">>
  /\ QrHasValidUntil(arg.qrDataString)
  /\ Get(arg.qrDataString.json.o, <<"v", "a", "l", "i", "d", "U", "n", "t", "i", "l">>) = Str(<<"2", "0", "2", "6", "-", "0", "6", "-", "1", "5">>)
  /\ res.value.certificateValid
  /\ res.value.codeValid
  /\ res.value.expired
  /\ ~res.value.valid
  /\ res.value.errors = <<<<"C", "e", "r", "t", "i", "f", "i", "c", "a", "t", "e", " ", "h", "a", "s", " ", "e", "x", "p", "i", "r", "e", "d">>>>

(***************************************************************************)
(* Claims about generating, parsing and formatting certificate numbers     *)
(***************************************************************************)
IsAsciiLetter(c) == IndexOf(UpperLetters, c) # -1 \/ IndexOf(LowerLetters, c) # -1

IsLetters(s, n) == Len(s) = n /\ \A i \in 1..Len(s) : IsAsciiLetter(s[i])

\* The first field, in the order of the checks, that is not as documented.
FirstInvalidOption(o) ==
  IF ~(o.year.t = "number" /\ o.year.n >= MinYear /\ o.year.n <= MaxYear) THEN <<"y", "e", "a", "r">>
  ELSE IF o.level \notin {<<"b", "r", "o", "n", "z", "e">>, <<"s", "i", "l", "v", "e", "r">>, <<"g", "o", "l", "d">>} THEN <<"l", "e", "v", "e", "l">>
  ELSE IF ~IsLetters(o.country, 2) THEN <<"c", "o", "u", "n", "t", "r", "y">>
  ELSE IF ~IsLetters(o.issuerCode, 3) THEN <<"i", "s", "s", "u", "e", "r", " ", "c", "o", "d", "e">>
  ELSE IF ~(o.serial.t = "number" /\ o.serial.n >= MinSerial /\ o.serial.n <= MaxSerial)
    THEN <<"s", "e", "r", "i", "a", "l">>
  ELSE <<>>

\* C21: generateCertificateNumber returns a number exactly when year is an
\* integer in 2020..2100, level is bronze, silver or gold, country is 2
\* letters, issuerCode is 3 letters and serial is an integer in 1..999999;
\* for every other input it throws an error naming the first offending field
\* in the order year, level, country, issuer code, serial.
C21_InvalidOptionsThrow ==
  op = "generateCertificateNumber" =>
    IF FirstInvalidOption(arg) = <<>>
    THEN res.kind = "ok"
    ELSE res.kind = "Error" /\ res.field = FirstInvalidOption(arg)

IsAsciiDigits(s) == \A i \in 1..Len(s) : IndexOf(Digits, s[i]) # -1

\* RS-DDDD-[BSG]-LL-LLL-DDDDDD-[A-Z0-9], letters in either case.
MatchesCertificatePattern(s) ==
  /\ Len(s) = 25
  /\ s[1] \in {"R", "r"} /\ s[2] \in {"S", "s"}
  /\ \A i \in {3, 8, 10, 13, 17, 24} : s[i] = "-"
  /\ IsAsciiDigits(SubSeq(s, 4, 7))
  /\ s[9] \in {"B", "S", "G", "b", "s", "g"}
  /\ IsLetters(SubSeq(s, 11, 12), 2)
  /\ IsLetters(SubSeq(s, 14, 16), 3)
  /\ IsAsciiDigits(SubSeq(s, 18, 23))
  /\ (IsAsciiLetter(s[25]) \/ IndexOf(Digits, s[25]) # -1)

\* The check character recomputed over the text without its hyphens and
\* without its last character.
RecomputedCheck(s) ==
  calculateISO7064Check(SubSeq(s, 1, 2) \o SubSeq(s, 4, 7) \o <<s[9]>> \o SubSeq(s, 11, 12)
                          \o SubSeq(s, 14, 16) \o SubSeq(s, 18, 23))

\* C22: parseCertificateNumber returns null for every string that does not
\* match RS-DDDD-[BSG]-LL-LLL-DDDDDD-[A-Z0-9] case-insensitively and parts
\* for every string that matches, whatever its check character;
\* validateCertificateNumber returns false for unparseable strings and for
\* well-formed strings whose check character is not the recomputed one;
\* neither throws.
C22_ParseAndValidateSeparate ==
  /\ op = "parseText" =>
       IF MatchesCertificatePattern(arg) THEN res.kind = "ok" ELSE res.kind = "null"
  /\ op = "validateText" =>
       /\ res.kind = "ok"
       /\ ~MatchesCertificatePattern(arg) => res.value = FALSE
       /\ (MatchesCertificatePattern(arg) /\ ToUpperCase(<<arg[25]>>) # <<RecomputedCheck(arg)>>)
            => res.value = FALSE

\* C26: for every string s that parseCertificateNumber accepts,
\* formatCertificateNumber(s) is s upper-cased, so that the result parses to
\* the same parts; for every other string it is the upper-cased input; it
\* never throws.
C26_FormatOnlyRejoins ==
  /\ op = "formatText" => (res.kind = "ok" /\ res.value = ToUpperCase(arg))
  /\ op = "parseFormatted" => res = parseCertificateNumber(src)

PartsInRange(parts) ==
  /\ parts.year >= MinYear /\ parts.year <= MaxYear
  /\ parts.serial >= MinSerial /\ parts.serial <= MaxSerial

\* C27: every non-null result of parseCertificateNumber, and hence every
\* certificate number that validateCertificateNumber accepts, has a year in
\* 2020..2100 and a serial in 1..999999.
C27_AcceptedPartsInRange ==
  /\ (op = "parseText" /\ res.kind = "ok") => PartsInRange(res.value)
  /\ (op = "validateText" /\ res.value = TRUE) =>
       PartsInRange(parseCertificateNumber(arg).value)

(***************************************************************************)
(* Claims about random integers                                            *)
(***************************************************************************)
\* The raw samples that leave the loop with result r.
SamplesGiving(max, r) == {v \in 0..WordMax : Accepted(max, v) /\ v % max = r}

\* C23: for every max in 1..2^32-1 (here 1..WordMax) the result of
\* getSecureRandomInt is in [0, max), the accepted raw samples are exactly
\* those below limit = 0xFFFFFFFF - (0xFFFFFFFF mod max), and every value of
\* the range is produced by the same number of accepted samples (limit / max
\* of them, for each value returned); max <= 0 or max > 2^32-1 raises an
\* error without drawing.
C23_NoModuloBias ==
  op = "getSecureRandomInt" =>
    IF arg.max <= 0 \/ arg.max > WordMax
    THEN pc = "returned" /\ res.kind = "Error" /\ src = NoInput
    ELSE LET limit == WordMax - (WordMax % arg.max)
         IN /\ pc = "returned" =>
                 /\ res.kind = "ok"
                 /\ res.value \in 0..(arg.max - 1)
                 /\ res.value = src.raw % arg.max
                 /\ src.raw < limit
                 /\ Cardinality(SamplesGiving(arg.max, res.value)) = limit \div arg.max
            /\ (pc = "sampling" /\ src # NoInput) => src.raw >= limit

C23_Witness ==
  /\ op = "getSecureRandomInt"
  /\ pc = "returned"
  /\ arg.max = 4
  /\ src = [raw |-> WordMax - 4]
  /\ res.kind = "ok"
  /\ res.value = (WordMax - 4) % 4

(***************************************************************************)
(* Claims about the field lists                                            *)
(***************************************************************************)
AllowedNames == {ALLOWED_PUBLIC_FIELDS[i] : i \in 1..Len(ALLOWED_PUBLIC_FIELDS)}

ForbiddenNames == {FORBIDDEN_FIELDS[i] : i \in 1..Len(FORBIDDEN_FIELDS)}

\* C24 as stated: for every upper/lower-case spelling of a name,
\* isAllowedField answers as for the canonical spelling of an allowed name
\* and isForbiddenField as for the canonical spelling of a forbidden name,
\* and no name is both allowed and forbidden.
C24_BothListsIgnoreCase ==
  /\ op = "isForbiddenField" => res.value = (src.name \in ForbiddenNames)
  /\ op = "isAllowedField" =>
       /\ res.value = (src.name \in AllowedNames)
       /\ ~(res.value /\ src.forbidden)

\* C24 amended: isForbiddenField answers true for every upper/lower-case
\* spelling of a forbidden name and false for every spelling of any other
\* name; isAllowedField answers true for the five allowed names spelled
\* exactly as listed and false for every other string, other case spellings
\* of an allowed name included; no string is both allowed and forbidden.
C24_ForbiddenIgnoresCaseAllowedExact ==
  /\ op = "isForbiddenField" => res.value = (src.name \in ForbiddenNames)
  /\ op = "isAllowedField" =>
       /\ res.value = (arg \in AllowedNames)
       /\ ~(res.value /\ src.forbidden)

C24_Witness ==
  /\ op = "isAllowedField"
  /\ src = [name |-> <<"g", "i", "v", "e", "n", "N", "a", "m", "e">>, forbidden |-> FALSE]
  /\ arg = <<"G", "I", "V", "E", "N", "N", "A", "M", "E">>
  /\ res.value = FALSE

(***************************************************************************)
(* Claims about scanning and extracting                                    *)
(***************************************************************************)
\* The forbidden keys of an object, in key order.
ForbiddenKeysOf(entries) ==
  SelectSeq([i \in 1..Len(entries) |-> entries[i].k], IsForbiddenName)

\* The keys reported as container.key.
Reported(container, keys) == [i \in 1..Len(keys) |-> container \o <<".">> \o keys[i]]

\* C25: detectForbiddenFields returns exactly the forbidden keys found at the
\* top level (reported as field) and one level inside the publicAttributes
\* and attributes containers when these are objects (reported as
\* container.field), top-level matches first; it returns the empty list
\* exactly when none of these positions holds a forbidden key.
C25_DetectListsForbiddenKeys ==
  op = "detectForbiddenFields" =>
    /\ res.listed =
         ForbiddenKeysOf(arg)
           \o Reported(<<"p", "u", "b", "l", "i", "c", "A", "t", "t", "r", "i", "b", "u", "t", "e", "s">>,
                       ForbiddenKeysOf(ContainerEntries(arg, <<"p", "u", "b", "l", "i", "c", "A", "t", "t", "r", "i", "b", "u", "t", "e", "s">>)))
           \o Reported(<<"a", "t", "t", "r", "i", "b", "u", "t", "e", "s">>, ForbiddenKeysOf(ContainerEntries(arg, <<"a", "t", "t", "r", "i", "b", "u", "t", "e", "s">>)))
    /\ (res.listed = <<>>) <=> ~HasForbiddenField(arg)

C25_Witness ==
  /\ op = "detectForbiddenFields"
  /\ Len(res.listed) = 5
  /\ res.listed[1] = <<"P", "h", "o", "n", "e">>
  /\ res.listed[2] = <<"E", "M", "A", "I", "L">>
  /\ res.listed[3] = <<"p", "u", "b", "l", "i", "c", "A", "t", "t", "r", "i", "b", "u", "t", "e", "s", ".", "S", "S", "N">>
  /\ res.listed[4] = <<"p", "u", "b", "l", "i", "c", "A", "t", "t", "r", "i", "b", "u", "t", "e", "s", ".", "s", "c", "o", "r", "e">>
  /\ res.listed[5] = <<"a", "t", "t", "r", "i", "b", "u", "t", "e", "s", ".", "e", "m", "a", "i", "l">>

SameOutcome(a, b) == a.kind = b.kind /\ (a.kind = "ok" => a.value = b.value)

\* The object holding only the five named fields of a credential.
NamedFields(credential) ==
  [i \in 1..Len(ALLOWED_PUBLIC_FIELDS) |->
     Entry(ALLOWED_PUBLIC_FIELDS[i], Get(credential, ALLOWED_PUBLIC_FIELDS[i]))]

\* C29 as stated: for every input that has no publicAttributes sub-object,
\* extractPublicAttributes has the same outcome as
\* enforcePublicAttributesOnly on the same input (same attributes, or the
\* same kind of error).
C29_ExtractSameAsEnforce ==
  (op = "enforceSame" /\ Get(arg, <<"p", "u", "b", "l", "i", "c", "A", "t", "t", "r", "i", "b", "u", "t", "e", "s">>).t # "object") => SameOutcome(src, res)

\* C29 amended: for every input whose publicAttributes is absent or falsy,
\* extractPublicAttributes has the outcome of enforcePublicAttributesOnly on
\* the object holding only the input's five named fields; it never fails
\* with ProtocolViolationError, and it has the outcome of
\* enforcePublicAttributesOnly on the input itself whenever that outcome is
\* not a ProtocolViolationError.
C29_ExtractEnforcesNamedFields ==
  (op = "enforceSame" /\ ~Truthy(Get(arg, <<"p", "u", "b", "l", "i", "c", "A", "t", "t", "r", "i", "b", "u", "t", "e", "s">>))) =>
    /\ src = enforcePublicAttributesOnly(NamedFields(arg), tzOffsetMin, lenientDates)
    /\ src.kind # "ProtocolViolationError"
    /\ res.kind # "ProtocolViolationError" => src = res

C29_Witness ==
  /\ op = "enforceSame"
  /\ arg = ValidAttributes \o <<Entry(<<"e", "m", "a", "i", "l">>, Str(<<"x", "@", "y", ".", "c", "o", "m">>))>>
  /\ src = Returned(ValidAttributes)
  /\ res.kind = "ProtocolViolationError"
  /\ res.field = <<"e", "m", "a", "i", "l">>

(***************************************************************************)
(* Claims about the credential builder                                     *)
(***************************************************************************)
\* The 'required' message of the first item no setter call has set, in the
\* order issuer code, country, given name, family name, level, serial; the
\* empty string when every item is set.
FirstUnsetItem(calls) ==
  IF calls.issuer = <<>> THEN <<"I", "s", "s", "u", "e", "r", " ", "c", "o", "d", "e", " ", "i", "s", " ", "r", "e", "q", "u", "i", "r", "e", "d">>
  ELSE IF calls.holder = <<>> THEN <<"G", "i", "v", "e", "n", " ", "n", "a", "m", "e", " ", "i", "s", " ", "r", "e", "q", "u", "i", "r", "e", "d">>
  ELSE IF calls.level = <<>> THEN <<"L", "e", "v", "e", "l", " ", "i", "s", " ", "r", "e", "q", "u", "i", "r", "e", "d">>
  ELSE IF calls.serial = <<>> THEN <<"S", "e", "r", "i", "a", "l", " ", "n", "u", "m", "b", "e", "r", " ", "i", "s", " ", "r", "e", "q", "u", "i", "r", "e", "d">>
  ELSE <<>>

\* The same, an item set to the empty string or to serial 0 counting as unset.
FirstMissingItem(calls) ==
  IF calls.issuer = <<>> \/ calls.issuer[1] = <<>> THEN <<"I", "s", "s", "u", "e", "r", " ", "c", "o", "d", "e", " ", "i", "s", " ", "r", "e", "q", "u", "i", "r", "e", "d">>
  ELSE IF calls.issuer[2] = <<>> THEN <<"C", "o", "u", "n", "t", "r", "y", " ", "i", "s", " ", "r", "e", "q", "u", "i", "r", "e", "d">>
  ELSE IF calls.holder = <<>> \/ calls.holder[1] = <<>> THEN <<"G", "i", "v", "e", "n", " ", "n", "a", "m", "e", " ", "i", "s", " ", "r", "e", "q", "u", "i", "r", "e", "d">>
  ELSE IF calls.holder[2] = <<>> THEN <<"F", "a", "m", "i", "l", "y", " ", "n", "a", "m", "e", " ", "i", "s", " ", "r", "e", "q", "u", "i", "r", "e", "d">>
  ELSE IF calls.level = <<>> \/ calls.level[1] = <<>> THEN <<"L", "e", "v", "e", "l", " ", "i", "s", " ", "r", "e", "q", "u", "i", "r", "e", "d">>
  ELSE IF calls.serial = <<>> \/ calls.serial[1].n = 0 THEN <<"S", "e", "r", "i", "a", "l", " ", "n", "u", "m", "b", "e", "r", " ", "i", "s", " ", "r", "e", "q", "u", "i", "r", "e", "d">>
  ELSE <<>>

\* The outcome of the privacy gate on the five attributes of a builder whose
\* items are all set: the names and level of the last calls, the dates of
\* the last validFor or validDates call or else today and the level's expiry.
GateOnBuilder(s) ==
  enforcePublicAttributesOnly(
    <<Entry(<<"g", "i", "v", "e", "n", "N", "a", "m", "e">>, Str(s.calls.holder[1])),
      Entry(<<"f", "a", "m", "i", "l", "y", "N", "a", "m", "e">>, Str(s.calls.holder[2])),
      Entry(<<"l", "e", "v", "e", "l">>, Str(s.calls.level[1])),
      Entry(<<"v", "a", "l", "i", "d", "F", "r", "o", "m">>, Nullish(s.builder.validFrom, Str(s.clock.today))),
      Entry(<<"v", "a", "l", "i", "d", "U", "n", "t", "i", "l">>,
            Nullish(s.builder.validUntil,
                    Str(getExpiryDate(s.calls.level[1], s.clock.today))))>>,
    tzOffsetMin, lenientDates)

\* build() of a builder whose items are all there: the gate's error if the
\* gate fails, else the identifiers' error or the three parts of the result.
GateThenIdentifiers(s) ==
  IF GateOnBuilder(s).kind # "ok" THEN res = GateOnBuilder(s)
  ELSE \/ /\ res.kind = "Error"
          /\ res.field \in {<<"y", "e", "a", "r">>, <<"l", "e", "v", "e", "l">>, <<"c", "o", "u", "n", "t", "r", "y">>, <<"i", "s", "s", "u", "e", "r", " ", "c", "o", "d", "e">>, <<"s", "e", "r", "i", "a", "l">>}
       \/ /\ res.kind = "ok"
          /\ res.value.publicAttributes = GateOnBuilder(s).value
          /\ res.value.issuerCode = ToUpperCase(s.calls.issuer[1])
          /\ validateCertificateNumber(res.value.identifiers.certificateNumber)

\* C28 as stated: build() throws the 'required' error of the first unset
\* item in the order issuer code, country, given name, family name, level,
\* serial, and when all are set it runs the privacy gate on the five
\* attributes before generating identifiers and returns publicAttributes,
\* identifiers and the upper-cased issuer code.
C28_FirstUnsetItemRequired ==
  op = "build" =>
    IF FirstUnsetItem(src.calls) # <<>>
    THEN res.kind = "Error" /\ res.field = FirstUnsetItem(src.calls)
    ELSE GateThenIdentifiers(src)

\* C28 amended: build() throws the 'required' error of the first item, in
\* that order, that is unset or was last set to an empty string or to the
\* serial 0; when none is, it runs the privacy gate before generating
\* identifiers and returns publicAttributes, identifiers and the upper-cased
\* issuer code.
C28_FirstMissingItemRequired ==
  op = "build" =>
    IF FirstMissingItem(src.calls) # <<>>
    THEN res.kind = "Error" /\ res.field = FirstMissingItem(src.calls)
    ELSE GateThenIdentifiers(src)

C28_Witness ==
  /\ op = "build"
  /\ src.calls = [issuer |-> <<<<"s", "w", "g">>, <<"i", "n">>>>, holder |-> <<<<>>, <<"K">>>>,
                  level |-> <<>>, serial |-> <<Num(0)>>]
  /\ res.kind = "Error"
  /\ res.field = <<"G", "i", "v", "e", "n", " ", "n", "a", "m", "e", " ", "i", "s", " ", "r", "e", "q", "u", "i", "r", "e", "d">>

(***************************************************************************)
(* Claims about the verification page                                      *)
(***************************************************************************)
\* The text of a field of a QR payload, or the empty text if it is no string.
QrText(qrData, key) ==
  LET v == Get(qrData.o, key) IN IF v.t = "string" THEN v.s ELSE <<>>

\* C30: whenever verifyCertificate returns valid = true together with a
\* non-null qrData, the cert and code of the qrData equal, after
\* normalization (upper case; separators removed from the code), the
\* certificateNumber and verificationCode arguments, so that what is shown
\* from the qrData belongs to the certificate that was checked.
C30_QrDataOfCheckedCertificate ==
  (op = "verifyCertificate" /\ res.value.valid /\ res.value.qrData # Null) =>
     /\ ToUpperCase(QrText(res.value.qrData, <<"c", "e", "r", "t">>)) = ToUpperCase(arg.certificateNumber)
     /\ cleanCode(QrText(res.value.qrData, <<"c", "o", "d", "e">>)) = cleanCode(arg.verificationCode)

====
